---------------------------- MODULE Spec2Model ----------------------------
(***************************************************************************)
(* A model of the cash-bid table pipeline of Grain-Dashboard-Auto:         *)
(*   resilient_fetch.py  (http_get, _make_unique, _flatten_columns,        *)
(*                        _strip_empty, read_tables_any, _long_form,       *)
(*                        normalize_bid_table_smart, fetch_coop_table)     *)
(*   resilient_patch.py  (the earlier read_tables_any, normalize_bid_table *)
(*                        and fetch_coop_table)                            *)
(*   app.py              (_normalize_df, aggregate_bids)                   *)
(*                                                                         *)
(* A pandas DataFrame is a record [multi, cols, rows]: cols is the         *)
(* sequence of column labels (strings), rows is a sequence of rows, each a *)
(* sequence of cells as long as cols.  When the column index is a          *)
(* MultiIndex (multi = TRUE) a label is a tuple of levels, written here as *)
(* one string with the levels separated by "|".  Columns are addressed by  *)
(* position, and a label may occur more than once, as in pandas.           *)
(* A cell is a record [k, s, n]: k = "nan" (NaN/None), k = "str" (text s)  *)
(* or k = "num" (a number; n is its value in hundredths, so 4.48 is 448).  *)
(***************************************************************************)
EXTENDS Integers, Sequences, FiniteSets, TLC

VARIABLES
    tbl,      \* SpecRepair: the table handed to the repair step
    rep1,     \* SpecRepair: the table after one repair
    rep2,     \* SpecRepair: the table after a second repair of rep1
    rstage,   \* SpecRepair: "raw", "once" or "twice"
    cand,     \* SpecNormalize: the candidate table the caller holds
    cand0,    \* SpecNormalize: the candidate table as it was discovered
    nout,     \* SpecNormalize: what normalize returned or raised
    nstage,   \* SpecNormalize: "in", "smart" or "patch"
    net,      \* SpecFetch: the network, a function from URLs to responses
    parsers,  \* SpecFetch: the HTML parsers pandas can import
    fout,     \* SpecFetch: the outcome of fetch_coop_table
    fstage,   \* SpecFetch: "in", "smart" or "patch"
    sites,    \* SpecAggregate: what each cash-bid URL answers
    aout,     \* SpecAggregate: what aggregate_bids returned or raised
    astage,   \* SpecAggregate: "in", "done" or "view"
    view      \* SpecAggregate: what the auto-fetch view showed or raised

repairVars == <<tbl, rep1, rep2, rstage>>
normVars == <<cand, cand0, nout, nstage>>
fetchVars == <<net, parsers, fout, fstage>>
aggVars == <<sites, aout, astage, view>>
vars == <<repairVars, normVars, fetchVars, aggVars>>

(***************************************************************************)
(* Bounds of the model.                                                    *)
(***************************************************************************)
MaxRepairCols == 3
MaxRepairRows == 1

(***************************************************************************)
(* Strings.  TLC treats a string as a sequence of characters: Len, SubSeq  *)
(* and \o work on it.                                                      *)
(***************************************************************************)
\* re.search(k, s) for a literal k: k occurs somewhere in s.
Contains(s, k) ==
    \E i \in 1..(Len(s) - Len(k) + 1) : SubSeq(s, i, i + Len(k) - 1) = k

\* str.strip(): leading and trailing blanks removed.
RECURSIVE LStrip(_)
LStrip(s) ==
    IF Len(s) > 0 /\ SubSeq(s, 1, 1) = " " THEN LStrip(SubSeq(s, 2, Len(s))) ELSE s

RECURSIVE RStrip(_)
RStrip(s) ==
    IF Len(s) > 0 /\ SubSeq(s, Len(s), Len(s)) = " "
    THEN RStrip(SubSeq(s, 1, Len(s) - 1)) ELSE s

Strip(s) == RStrip(LStrip(s))

\* " ".join(parts)
RECURSIVE Join(_)
Join(parts) ==
    IF parts = <<>> THEN ""
    ELSE IF Len(parts) = 1 THEN parts[1]
    ELSE parts[1] \o " " \o Join(Tail(parts))

\* The elements of a sequence that satisfy Keep, in order.
RECURSIVE SelectIdx(_, _)
SelectIdx(n, keep) ==
    \* the increasing sequence of the indices of 1..n that are in keep
    IF n = 0 THEN <<>>
    ELSE IF n \in keep THEN Append(SelectIdx(n - 1, keep), n)
    ELSE SelectIdx(n - 1, keep)

\* The sequence q as the tuple of its elements: the elements are computed
\* once, here, and not where they are read.
Tuple(q) == SubSeq(q, 1, Len(q))

\* The sequences over S of length at most n.
SeqsUpTo(S, n) == UNION {[1..m -> S] : m \in 0..n}

(***************************************************************************)
(* Cells and tables.                                                       *)
(***************************************************************************)
NaN == [k |-> "nan", s |-> "", n |-> 0]
Str(t) == [k |-> "str", s |-> t, n |-> 0]
Num(v) == [k |-> "num", s |-> "", n |-> v]

IsNa(c) == c.k = "nan"

NCols(df) == Len(df.cols)
NRows(df) == Len(df.rows)

\* pd.DataFrame()
NoTable == [multi |-> FALSE, cols |-> <<>>, rows |-> <<>>]

\* The table df with its labels and cells computed (a copy of df).
Frame(df) ==
    [multi |-> df.multi,
     cols |-> Tuple(df.cols),
     rows |-> Tuple([i \in 1..Len(df.rows) |-> Tuple(df.rows[i])])]

\* df.iloc[:, idx] for a sequence idx of column positions.
TakeCols(df, idx) ==
    [df EXCEPT !.cols = [j \in 1..Len(idx) |-> df.cols[idx[j]]],
               !.rows = [i \in 1..Len(df.rows) |->
                            [j \in 1..Len(idx) |-> df.rows[i][idx[j]]]]]

\* df.iloc[idx, :] for a sequence idx of row positions.
TakeRows(df, idx) ==
    [df EXCEPT !.rows = [i \in 1..Len(idx) |-> df.rows[idx[i]]]]

(***************************************************************************)
(* resilient_fetch.py: the Table Repairer.                                 *)
(***************************************************************************)
\* _make_unique: seen maps a label to the number of times it was met; the
\* first occurrence keeps the label, the k-th becomes label_k.  The labels
\* already produced are not consulted.
RECURSIVE MakeUniqueFrom(_, _, _, _)
MakeUniqueFrom(cols, i, seen, out) ==
    IF i > Len(cols) THEN out
    ELSE LET c == cols[i] IN
         IF c \notin DOMAIN seen
         THEN MakeUniqueFrom(cols, i + 1,
                             [x \in DOMAIN seen \cup {c} |->
                                 IF x = c THEN 1 ELSE seen[x]],
                             Append(out, c))
         ELSE MakeUniqueFrom(cols, i + 1,
                             [seen EXCEPT ![c] = @ + 1],
                             Append(out, c \o "_" \o ToString(seen[c] + 1)))

_make_unique(cols) == MakeUniqueFrom(cols, 1, <<>>, <<>>)

\* The levels of a MultiIndex label: the parts of s between the "|".
RECURSIVE LevelsFrom(_, _, _)
LevelsFrom(s, i, cur) ==
    IF i > Len(s) THEN <<cur>>
    ELSE IF SubSeq(s, i, i) = "|" THEN <<cur>> \o LevelsFrom(s, i + 1, "")
    ELSE LevelsFrom(s, i + 1, cur \o SubSeq(s, i, i))

Levels(s) == LevelsFrom(s, 1, "")

\* The MultiIndex branch of _flatten_columns: the levels of a label that do
\* not print as 'nan' joined by a blank, then stripped.
FlattenLabel(label) ==
    LET tup == Levels(label)
        idx == SelectIdx(Len(tup), {i \in 1..Len(tup) : tup[i] # "nan"})
    IN Strip(Join([j \in 1..Len(idx) |-> tup[idx[j]]]))

_flatten_columns(df) ==
    LET flat == IF df.multi
                THEN [j \in 1..Len(df.cols) |-> FlattenLabel(df.cols[j])]
                ELSE df.cols
    IN [df EXCEPT !.multi = FALSE, !.cols = _make_unique(flat)]

\* _strip_empty: dropna(how="all") drops the rows without a non-null cell,
\* then dropna(axis=1, how="all") the columns without a non-null cell in the
\* rows that are left.
_strip_empty(df) ==
    LET keepRows == {i \in 1..NRows(df) : \E j \in 1..NCols(df) : ~IsNa(df.rows[i][j])}
        d1 == TakeRows(df, SelectIdx(NRows(df), keepRows))
        keepCols == {j \in 1..NCols(d1) : \E i \in 1..NRows(d1) : ~IsNa(d1.rows[i][j])}
    IN TakeCols(d1, SelectIdx(NCols(d1), keepCols))

\* The repair step: _flatten_columns followed by _strip_empty
\* (read_tables_any's clean-up loop, normalize_bid_table_smart's first lines).
RepairTable(df) == _strip_empty(_flatten_columns(df))

(***************************************************************************)
(* Text and numbers: str.lower, float <-> str, keyword search.             *)
(***************************************************************************)
UpperChars == "ABCDEFGHIJKLMNOPQRSTUVWXYZ"
LowerChars == "abcdefghijklmnopqrstuvwxyz"
DigitChars == "0123456789"

\* The position of the one-character string c in chars, 0 when absent.
PosIn(c, chars) ==
    IF \E i \in 1..Len(chars) : SubSeq(chars, i, i) = c
    THEN CHOOSE i \in 1..Len(chars) : SubSeq(chars, i, i) = c
    ELSE 0

LowerChar(c) ==
    IF PosIn(c, UpperChars) > 0
    THEN SubSeq(LowerChars, PosIn(c, UpperChars), PosIn(c, UpperChars))
    ELSE c

\* str.lower() (and the effect of re.I on a pattern written in lower case)
RECURSIVE Lower(_)
Lower(s) ==
    IF Len(s) = 0 THEN s
    ELSE LowerChar(SubSeq(s, 1, 1)) \o Lower(SubSeq(s, 2, Len(s)))

\* re.search of an alternation of literals k1|k2|...
ContainsAny(s, keys) == \E k \in keys : Contains(s, k)

IsDigits(s) == \A i \in 1..Len(s) : PosIn(SubSeq(s, i, i), DigitChars) > 0

\* The value of a string of digits.
RECURSIVE DigitsVal(_)
DigitsVal(s) ==
    IF Len(s) = 0 THEN 0
    ELSE 10 * DigitsVal(SubSeq(s, 1, Len(s) - 1))
         + (PosIn(SubSeq(s, Len(s), Len(s)), DigitChars) - 1)

\* pd.to_numeric(.., errors="coerce") on one string: [ok, v], v in hundredths
\* (decimals beyond the second are dropped).  Accepted: blanks around, one
\* optional sign, digits with at most one point and at least one digit.
ParseNumber(s) ==
    LET t == Strip(s)
        signed == Len(t) > 0 /\ SubSeq(t, 1, 1) \in {"+", "-"}
        neg == signed /\ SubSeq(t, 1, 1) = "-"
        u == IF signed THEN SubSeq(t, 2, Len(t)) ELSE t
        dot == PosIn(".", u)
        ip == IF dot = 0 THEN u ELSE SubSeq(u, 1, dot - 1)
        fp == IF dot = 0 THEN "" ELSE SubSeq(u, dot + 1, Len(u))
        fp2 == SubSeq(fp \o "00", 1, 2)
        ok == IsDigits(ip) /\ IsDigits(fp) /\ Len(ip) + Len(fp) > 0
        mag == 100 * DigitsVal(ip) + DigitsVal(fp2)
    IN IF ok THEN [ok |-> TRUE, v |-> IF neg THEN 0 - mag ELSE mag]
       ELSE [ok |-> FALSE, v |-> 0]

\* str(float) of a value given in hundredths: 448 -> "4.48", 460 -> "4.6",
\* 400 -> "4.0", -12 -> "-0.12".
FormatNum(v) ==
    LET mag == IF v < 0 THEN 0 - v ELSE v
        ip == mag \div 100
        fp == mag % 100
        frac == IF fp % 10 = 0 THEN ToString(fp \div 10)
                ELSE IF fp < 10 THEN "0" \o ToString(fp) ELSE ToString(fp)
    IN (IF v < 0 THEN "-" ELSE "") \o ToString(ip) \o "." \o frac

\* Series.astype(str) on one cell.
AsStr(c) ==
    IF c.k = "str" THEN c.s ELSE IF c.k = "num" THEN FormatNum(c.n) ELSE "nan"

\* pd.to_numeric(.., errors="coerce") on one cell.
ToNumeric(c) ==
    IF c.k = "num" THEN c
    ELSE IF c.k = "str" /\ ParseNumber(c.s).ok THEN Num(ParseNumber(c.s).v)
    ELSE NaN

(***************************************************************************)
(* Access to columns by label.  With a repeated label df[label] is a       *)
(* DataFrame, not a Series.                                                *)
(***************************************************************************)
HasCol(df, label) == \E j \in 1..NCols(df) : df.cols[j] = label

\* The positions of the columns labelled label, in order.
ColIdx(df, label) == SelectIdx(NCols(df), {j \in 1..NCols(df) : df.cols[j] = label})

\* isinstance(df[label], pd.DataFrame)
IsFrame(df, label) == Len(ColIdx(df, label)) > 1

\* The cells of the one column labelled label.
Series(df, label) == [i \in 1..NRows(df) |-> df.rows[i][ColIdx(df, label)[1]]]

\* df[label] = cells, for a label that no column or one column carries: the
\* column is replaced in place, or appended.
SetCol(df, label, cells) ==
    IF HasCol(df, label)
    THEN [df EXCEPT !.rows = [i \in 1..NRows(df) |->
                                 [df.rows[i] EXCEPT ![ColIdx(df, label)[1]] = cells[i]]]]
    ELSE [df EXCEPT !.cols = Append(df.cols, label),
                    !.rows = [i \in 1..NRows(df) |-> Append(df.rows[i], cells[i])]]

\* df[label] = value (a scalar)
SetColConst(df, label, cell) == SetCol(df, label, [i \in 1..NRows(df) |-> cell])

\* df[labels]: for each label of the list, every column that carries it.
RECURSIVE SelectLabels(_, _)
SelectLabels(df, labels) ==
    IF labels = <<>> THEN <<>>
    ELSE ColIdx(df, labels[1]) \o SelectLabels(df, Tail(labels))

\* df[mask]: the rows whose position is in keep.
FilterRows(df, keep) == TakeRows(df, SelectIdx(NRows(df), keep))

(***************************************************************************)
(* Outcomes: a value, or an exception.                                     *)
(***************************************************************************)
Ret(df) == [raised |-> FALSE, err |-> "", df |-> df]
Raise(e) == [raised |-> TRUE, err |-> e,
             df |-> [multi |-> FALSE, cols |-> <<>>, rows |-> <<>>]]

(***************************************************************************)
(* resilient_fetch.py: _long_form.                                         *)
(***************************************************************************)
CommodityTerms == {"corn", "soy", "bean", "soybean"}
\* head(20) in _long_form
SampleRows == 20

\* next((c for c in df.columns if re.search(keys, str(c), re.I)), None):
\* the position of the first matching column, 0 for None.
FirstMatch(df, keys) ==
    IF \E j \in 1..NCols(df) : ContainsAny(Lower(df.cols[j]), keys)
    THEN CHOOSE j \in 1..NCols(df) :
            /\ ContainsAny(Lower(df.cols[j]), keys)
            /\ \A h \in 1..(j - 1) : ~ContainsAny(Lower(df.cols[h]), keys)
    ELSE 0

\* Positions without repetition, first occurrences kept (algos.unique).
RECURSIVE UniqueSeq(_)
UniqueSeq(q) ==
    IF q = <<>> THEN <<>>
    ELSE LET front == UniqueSeq(SubSeq(q, 1, Len(q) - 1))
         IN IF \E i \in 1..Len(front) : front[i] = q[Len(q)]
            THEN front ELSE Append(front, q[Len(q)])

\* df.melt(id_vars, value_vars, var_name="commodity", value_name="cash"):
\* the identifier columns are popped from the frame, and every column left
\* contributes one row per input row, column after column.  Popping the same
\* label twice is a KeyError.
Melt(df, idLabels, valueLabels) ==
    IF \E a, b \in 1..Len(idLabels) : a # b /\ idLabels[a] = idLabels[b]
    THEN Raise("KeyError")
    ELSE
    LET idPos == UniqueSeq(SelectLabels(df, idLabels))
        allPos == UniqueSeq(SelectLabels(df, idLabels \o valueLabels))
        valPos == SelectIdx(Len(allPos), {x \in 1..Len(allPos) :
                     \A y \in 1..Len(idPos) : idPos[y] # allPos[x]})
        K == Len(valPos)
        N == NRows(df)
    IN Ret([multi |-> FALSE,
            cols |-> idLabels \o <<"commodity", "cash">>,
            rows |-> [r \in 1..(K * N) |->
                LET col == allPos[valPos[((r - 1) \div N) + 1]]
                    row == df.rows[((r - 1) % N) + 1]
                IN [y \in 1..Len(idPos) |-> row[idPos[y]]]
                   \o <<Str(df.cols[col]), row[col]>>]])

\* The part of _long_form after the wide-format branch.
LongFormFirstCol(df) ==
    IF NCols(df) = 0 THEN Raise("IndexError")
    ELSE LET first_col == df.cols[1] IN
         IF ContainsAny(Lower(first_col), {"comm", "product", "crop"}) THEN Ret(df)
         ELSE IF IsFrame(df, first_col) THEN Raise("AttributeError")
         ELSE IF \E i \in 1..NRows(df) :
                    /\ i <= SampleRows
                    /\ ContainsAny(Lower(AsStr(df.rows[i][1])), CommodityTerms)
              THEN Ret([df EXCEPT !.cols = [j \in 1..NCols(df) |->
                           IF df.cols[j] = first_col THEN "commodity" ELSE df.cols[j]]])
              ELSE Ret(df)

_long_form(df) ==
    LET commodity_like_cols ==
            [x \in 1..Len(SelectIdx(NCols(df),
                    {j \in 1..NCols(df) : ContainsAny(Lower(df.cols[j]), CommodityTerms)})) |->
                df.cols[SelectIdx(NCols(df),
                    {j \in 1..NCols(df) : ContainsAny(Lower(df.cols[j]), CommodityTerms)})[x]]]
        delivery_col == FirstMatch(df, {"deliv", "month", "period", "delivery"})
        location_col == FirstMatch(df, {"location", "loc", "name"})
        \* "if delivery_col:" is false for None and for the empty label
        id_vars ==
            (IF delivery_col > 0 /\ df.cols[delivery_col] # ""
             THEN <<df.cols[delivery_col]>> ELSE <<>>)
            \o (IF location_col > 0 /\ df.cols[location_col] # ""
                THEN <<df.cols[location_col]>> ELSE <<>>)
        melted == Melt(df, id_vars, commodity_like_cols)
    IN IF commodity_like_cols # <<>> /\ ~melted.raised
       THEN melted
       ELSE LongFormFirstCol(df)

(***************************************************************************)
(* resilient_fetch.py: normalize_bid_table_smart.                          *)
(* The patterns of this file are raw strings with doubled backslashes, so  *)
(* "\\s" is a backslash followed by the letter s, not a blank class.       *)
(***************************************************************************)
\* The column mapping (the if/elif chain over lc = str(c).lower().strip()).
\* "^delivery(\\s|$)" is covered by "deliv"; the delivery_start and
\* delivery_end branches need "delivery" in lc and are shadowed by the
\* delivery branch; "\\$\\s*price" asks for a backslash after the end of the
\* text and matches nothing.
SmartMap(c) ==
    LET lc == Strip(Lower(c)) IN
    IF ContainsAny(lc, {"comm", "product", "crop"}) THEN "commodity"
    ELSE IF ContainsAny(lc, {"deliv", "month", "period"}) THEN "delivery"
    ELSE IF lc = "name" THEN "location"
    ELSE IF Contains(lc, "basis") THEN "basis"
    ELSE IF ContainsAny(lc, {"fut", "cbot"}) THEN "futures"
    ELSE IF lc = "price" \/ ContainsAny(lc, {"cash", "bid"}) THEN "cash"
    ELSE IF ContainsAny(lc, {"location", "loc"}) THEN "location"
    ELSE c

\* A character class as sre_parse reads it: a sequence of ranges lo-hi of
\* character codes (a single character is lo = hi).  A range with lo > hi is
\* re.error "bad character range".
\* r"[^0-9.\\-+]": 0-9, ".", and the range from "\" (92) to "+" (43).
SmartCleanRanges == << <<48, 57>>, <<46, 46>>, <<92, 43>> >>
\* r"[^0-9\.\-\+]": 0-9, ".", "-", "+".
PatchCleanRanges == << <<48, 57>>, <<46, 46>>, <<45, 45>>, <<43, 43>> >>

RegexCompiles(ranges) == \A i \in 1..Len(ranges) : ranges[i][1] <= ranges[i][2]

\* str.replace(r"[^0-9.+-]", "") : only digits, ".", "+" and "-" are kept.
RECURSIVE KeepNumericChars(_)
KeepNumericChars(s) ==
    IF Len(s) = 0 THEN s
    ELSE (IF PosIn(SubSeq(s, 1, 1), "0123456789.+-") > 0 THEN SubSeq(s, 1, 1) ELSE "")
         \o KeepNumericChars(SubSeq(s, 2, Len(s)))

\* One cell of a price column: astype(str), the characters outside the class
\* removed, "" replaced by None, pd.to_numeric(errors="coerce").
CleanCell(c) ==
    LET t == KeepNumericChars(AsStr(c))
    IN IF t = "" THEN NaN ELSE ToNumeric(Str(t))

\* "Clean numeric columns": for cash, basis, futures in turn, when the column
\* is present.  firstOfFrame: a repeated label is reduced to its first column
\* (ser.iloc[:, 0]); without it .str on a DataFrame is an AttributeError.
RECURSIVE CleanNumeric(_, _, _, _)
CleanNumeric(df, names, ranges, firstOfFrame) ==
    IF names = <<>> THEN Ret(df)
    ELSE LET col == names[1] IN
         IF ~HasCol(df, col) THEN CleanNumeric(df, Tail(names), ranges, firstOfFrame)
         ELSE IF IsFrame(df, col) /\ ~firstOfFrame THEN Raise("AttributeError")
         ELSE IF ~RegexCompiles(ranges) THEN Raise("re.error")
         ELSE LET first == ColIdx(df, col)[1]
                  cleaned == [i \in 1..NRows(df) |-> CleanCell(df.rows[i][first])]
              IN CleanNumeric(
                    [df EXCEPT !.rows = [i \in 1..NRows(df) |->
                        [j \in 1..NCols(df) |->
                            IF df.cols[j] = col THEN cleaned[i] ELSE df.rows[i][j]]]],
                    Tail(names), ranges, firstOfFrame)

PriceColumns == <<"cash", "basis", "futures">>

\* "If missing 'cash', choose a reasonable numeric column": the columns with
\* at least max(1, len(df)//3) numeric values are the candidates (a repeated
\* label raises TypeError in pd.to_numeric and is skipped); the stable sort
\* by count, descending, puts the first column of greatest count in front.
NumericCount(df, j) == Cardinality({i \in 1..NRows(df) : ~IsNa(ToNumeric(df.rows[i][j]))})

MaxOf(a, b) == IF a >= b THEN a ELSE b

SmartCashFallback(df) ==
    IF HasCol(df, "cash") THEN Ret(df)
    ELSE LET numeric_candidates == {j \in 1..NCols(df) :
                    /\ ~IsFrame(df, df.cols[j])
                    /\ NumericCount(df, j) >= MaxOf(1, NRows(df) \div 3)}
         IN IF numeric_candidates = {} THEN Ret(df)
            ELSE LET best == CHOOSE j \in numeric_candidates :
                        \A h \in numeric_candidates :
                            \/ NumericCount(df, h) < NumericCount(df, j)
                            \/ (NumericCount(df, h) = NumericCount(df, j) /\ j <= h)
                 IN Ret([df EXCEPT !.cols = [j \in 1..NCols(df) |->
                            IF df.cols[j] = df.cols[best] THEN "cash" ELSE df.cols[j]]])

\* A variant that filters even when no row matches.
FilterAlways(df) ==
    IF ~HasCol(df, "commodity") THEN Ret(df)
    ELSE IF IsFrame(df, "commodity") THEN Raise("AttributeError")
    ELSE Ret(FilterRows(df, {i \in 1..NRows(df) :
                 ContainsAny(Lower(AsStr(Series(df, "commodity")[i])), CommodityTerms)}))

\* "Filter commodity labels if present": the rows whose commodity text holds
\* a corn/soy/bean term are kept, unless no row does.
CommodityFilter(df) ==
    IF ~HasCol(df, "commodity") THEN Ret(df)
    ELSE IF IsFrame(df, "commodity") THEN Raise("AttributeError")
    ELSE LET m == {i \in 1..NRows(df) :
                     ContainsAny(Lower(AsStr(Series(df, "commodity")[i])), CommodityTerms)}
         IN IF m # {} THEN Ret(FilterRows(df, m)) ELSE Ret(df)

StampLocation(df, location) ==
    IF HasCol(df, "location") THEN df ELSE SetColConst(df, "location", Str(location))

\* df["cash"] - df["futures"], cell by cell: null when either is null.
Minus(a, b) == IF a.k = "num" /\ b.k = "num" THEN Num(a.n - b.n) ELSE NaN

DeriveBasis(df) ==
    IF ~HasCol(df, "basis") /\ HasCol(df, "cash") /\ HasCol(df, "futures")
    THEN IF IsFrame(df, "cash") \/ IsFrame(df, "futures") THEN Raise("ValueError")
         ELSE Ret(SetCol(df, "basis",
                    [i \in 1..NRows(df) |->
                        Minus(Series(df, "cash")[i], Series(df, "futures")[i])]))
    ELSE Ret(df)

\* The row filter: df[df.get("cash").notna() | df.get("basis").notna()].
\* df.get of an absent column is None, and None.notna() is an
\* AttributeError.
RowFilter(df) ==
    IF HasCol(df, "cash") \/ HasCol(df, "basis")
    THEN IF ~HasCol(df, "cash") \/ ~HasCol(df, "basis") THEN Raise("AttributeError")
         ELSE IF IsFrame(df, "cash") \/ IsFrame(df, "basis") THEN Raise("ValueError")
         ELSE Ret(FilterRows(df, {i \in 1..NRows(df) :
                    ~IsNa(Series(df, "cash")[i]) \/ ~IsNa(Series(df, "basis")[i])}))
    ELSE Ret(df)

\* str.replace(r"\\s+", " "): a backslash followed by one or more "s"
\* becomes a blank.
RECURSIVE SkipS(_, _)
SkipS(s, i) == IF i <= Len(s) /\ SubSeq(s, i, i) = "s" THEN SkipS(s, i + 1) ELSE i

RECURSIVE ReplaceBackslashS(_, _)
ReplaceBackslashS(s, i) ==
    IF i > Len(s) THEN ""
    ELSE IF SubSeq(s, i, i) = "\\" /\ SkipS(s, i + 1) > i + 1
         THEN " " \o ReplaceBackslashS(s, SkipS(s, i + 1))
         ELSE SubSeq(s, i, i) \o ReplaceBackslashS(s, i + 1)

TidyDelivery(df) ==
    IF ~HasCol(df, "delivery") THEN Raise("KeyError")
    ELSE IF IsFrame(df, "delivery") THEN Raise("AttributeError")
    ELSE Ret(SetCol(df, "delivery",
                [i \in 1..NRows(df) |->
                    Str(Strip(ReplaceBackslashS(AsStr(Series(df, "delivery")[i]), 1)))]))

CanonicalOrder ==
    <<"commodity", "delivery", "cash", "basis", "futures", "location", "last_refresh_epoch">>

\* [c for c in names if c in df.columns]
PresentLabels(df, names) ==
    LET idx == SelectIdx(Len(names), {x \in 1..Len(names) : HasCol(df, names[x])})
    IN [x \in 1..Len(idx) |-> names[idx[x]]]

\* [c for c in df.columns if c not in names]
OtherLabels(df, names) ==
    LET idx == SelectIdx(NCols(df), {j \in 1..NCols(df) :
                   \A x \in 1..Len(names) : names[x] # df.cols[j]})
    IN [x \in 1..Len(idx) |-> df.cols[idx[x]]]

\* df["last_refresh_epoch"] = int(time.time()); return df[order + rest]
StampAndOrder(df, now) ==
    LET d == SetColConst(df, "last_refresh_epoch", Num(100 * now))
        order == PresentLabels(d, CanonicalOrder)
        rest == OtherLabels(d, order)
    IN TakeCols(d, SelectLabels(d, order \o rest))

\* df.rename(columns=cmap)
SmartRename(df) == [df EXCEPT !.cols = [j \in 1..NCols(df) |-> SmartMap(df.cols[j])]]

DeliveryDefault(df) ==
    IF HasCol(df, "delivery") THEN df ELSE SetColConst(df, "delivery", Str("Nearby"))

\* A statement runs only when no statement before it raised: each set below
\* holds the one outcome of the function up to that statement.
\* The statements of normalize_bid_table_smart in order.  Each takes the
\* outcome r of the statements before it: an exception raised earlier
\* leaves the function at once, so the later statements do not run.
SmartRenamed(r) ==
    CHOOSE o \in {IF q.raised THEN q
                  ELSE Ret(DeliveryDefault(SmartRename(q.df))) : q \in {r}} : TRUE

SmartCleaned(r) ==
    CHOOSE o \in {IF q.raised THEN q
                  ELSE CleanNumeric(q.df, PriceColumns, SmartCleanRanges, TRUE) : q \in {r}} : TRUE

SmartCashFilled(r) ==
    CHOOSE o \in {IF q.raised THEN q ELSE SmartCashFallback(q.df) : q \in {r}} : TRUE

CommodityFiltered(r) ==
    CHOOSE o \in {IF q.raised THEN q ELSE CommodityFilter(q.df) : q \in {r}} : TRUE

LocationStamped(r, location) ==
    CHOOSE o \in {IF q.raised THEN q ELSE Ret(StampLocation(q.df, location)) : q \in {r}} : TRUE

BasisDerived(r) ==
    CHOOSE o \in {IF q.raised THEN q ELSE DeriveBasis(q.df) : q \in {r}} : TRUE

RowFiltered(r) ==
    CHOOSE o \in {IF q.raised THEN q ELSE RowFilter(q.df) : q \in {r}} : TRUE

DeliveryTidied(r) ==
    CHOOSE o \in {IF q.raised THEN q ELSE TidyDelivery(q.df) : q \in {r}} : TRUE

SmartOrdered(r, now) ==
    CHOOSE o \in {IF q.raised THEN q ELSE Ret(Frame(StampAndOrder(q.df, now))) : q \in {r}} : TRUE

normalize_bid_table_smart(df, location, now) ==
    SmartOrdered(
        DeliveryTidied(RowFiltered(BasisDerived(
            LocationStamped(
                CommodityFiltered(SmartCashFilled(SmartCleaned(SmartRenamed(
                    _long_form(_strip_empty(_flatten_columns(df))))))),
                location)))),
        now)

(***************************************************************************)
(* resilient_patch.py: normalize_bid_table (the earlier normalizer).       *)
(***************************************************************************)
\* re.sub(r"\s+", " ", s): every run of blanks becomes one blank.
RECURSIVE CollapseBlanks(_)
CollapseBlanks(s) ==
    IF Len(s) = 0 THEN s
    ELSE IF SubSeq(s, 1, 1) = " " THEN " " \o CollapseBlanks(LStrip(s))
    ELSE SubSeq(s, 1, 1) \o CollapseBlanks(SubSeq(s, 2, Len(s)))

\* df.columns = [re.sub(r"\s+", " ", str(c)).strip() for c in df.columns]:
\* an assignment to the caller's table.
PatchTidyLabels(df) ==
    [df EXCEPT !.cols = [j \in 1..NCols(df) |-> Strip(CollapseBlanks(df.cols[j]))]]

\* "unify column names": the if/elif chain over lc = c.lower().
PatchMap(c) ==
    LET lc == Lower(c) IN
    IF Contains(lc, "comm") \/ Contains(lc, "product") \/ lc \in {"commodity", "crop"}
    THEN "commodity"
    ELSE IF ContainsAny(lc, {"deliv", "period", "month", "delivery"}) THEN "delivery"
    ELSE IF ContainsAny(lc, {"cash", "bid", "price", "$/bu", "$ per bu", "$/ bu"}) THEN "cash"
    ELSE IF Contains(lc, "basis") THEN "basis"
    ELSE IF ContainsAny(lc, {"fut", "cbot"}) THEN "futures"
    ELSE IF Contains(lc, "loc") THEN "location"
    ELSE c

\* pd.api.types.is_numeric_dtype(df[c]): a column of numbers and nulls; a
\* repeated label gives a DataFrame, which is not of a numeric dtype.
IsNumericDtype(df, j) ==
    /\ ~IsFrame(df, df.cols[j])
    /\ NRows(df) > 0
    /\ \A i \in 1..NRows(df) : df.rows[i][j].k # "str"

\* "keep useful columns if present", plus the first numeric column when no
\* column was mapped to cash.
PatchKeep(df) ==
    LET keep == PresentLabels(df,
                    <<"commodity", "delivery", "cash", "basis", "futures", "location">>)
        NotKept(c) == \A x \in 1..Len(keep) : keep[x] # c
        numPos == SelectIdx(NCols(df), {j \in 1..NCols(df) :
                      NotKept(df.cols[j]) /\ IsNumericDtype(df, j)})
        extra == IF HasCol(df, "cash") \/ numPos = <<>> THEN <<>> ELSE <<df.cols[numPos[1]]>>
    IN TakeCols(df, SelectLabels(df, keep \o extra))

\* df.rename(columns=col_map)
PatchRename(df) == [df EXCEPT !.cols = [j \in 1..NCols(df) |-> PatchMap(df.cols[j])]]

\* The statements of normalize_bid_table after the column selection, each
\* taking the outcome of the statements before it.
PatchCleaned(df) ==
    CHOOSE o \in {CleanNumeric(d, PriceColumns, PatchCleanRanges, FALSE) : d \in {df}} : TRUE

PatchStamped(r, now) ==
    CHOOSE o \in {IF q.raised THEN q
                  ELSE Ret(Frame(SetColConst(q.df, "last_refresh_epoch", Num(100 * now))))
                  : q \in {r}} : TRUE

normalize_bid_table(df, location, now) ==
    PatchStamped(
        RowFiltered(BasisDerived(
            LocationStamped(
                CommodityFiltered(PatchCleaned(PatchKeep(PatchRename(PatchTidyLabels(df))))),
                location))),
        now)

(***************************************************************************)
(* The network and the documents it serves.  A response is a record        *)
(* [kind, status, page, csv]: kind = "ok" (a 2xx answer), "status" (a      *)
(* non-2xx answer), "transport" (requests.get raises: DNS, timeout) or     *)
(* "garbled" (a 2xx answer whose .text raises); page is the document, a    *)
(* sequence of elements [tag, ref]; csv names the table pd.read_csv makes  *)
(* of the body, "" when read_csv raises.  A <table> element names the      *)
(* table pandas.read_html parses from it.                                  *)
(***************************************************************************)
MaxPageTables == 2

TableEl(ref) == [tag |-> "table", ref |-> ref]
AnchorEl(href) == [tag |-> "a", ref |-> href]
IframeEl(src) == [tag |-> "iframe", ref |-> src]
CommentEl(text) == [tag |-> "comment", ref |-> text]

\* The tables of the bid pages: a priced grid, a list of commodities with
\* no price, the grid of a closed market, a one-line remark and a
\* navigation table.
TableRefs == {"bids", "list", "closed", "note", "menu"}

TableOf(ref) ==
    CASE ref = "bids" ->
            [multi |-> FALSE, cols |-> <<"Commodity", "Cash", "Futures">>,
             rows |-> << <<Str("Corn"), Num(448), Num(460)>> >>]
      [] ref = "list" ->
            [multi |-> FALSE, cols |-> <<"Commodity", "Delivery">>,
             rows |-> << <<Str("Corn"), Str("Nearby")>>,
                         <<Str("Soybeans"), Str("Dec 2025")>> >>]
      [] ref = "closed" ->
            [multi |-> FALSE, cols |-> <<"Commodity", "Cash", "Basis">>,
             rows |-> << <<Str("Corn"), Str("N/A"), Str("N/A")>>,
                         <<Str("Soybeans"), Str("N/A"), Str("N/A")>> >>]
      [] ref = "note" ->
            [multi |-> FALSE, cols |-> <<"Commodity", "Notes">>,
             rows |-> << <<Str("Soybeans"), Str("call")>> >>]
      [] OTHER ->
            [multi |-> FALSE, cols |-> <<"Home", "About">>,
             rows |-> << <<Str("x"), Str("y")>> >>]

\* The source text of an element, and resp.text of a page.
ElementText(el) ==
    CASE el.tag = "table" -> "<table id=" \o el.ref \o "></table>"
      [] el.tag = "a" -> "<a href=" \o el.ref \o "></a>"
      [] el.tag = "iframe" -> "<iframe src=" \o el.ref \o "></iframe>"
      [] OTHER -> "<!--" \o el.ref \o "-->"

RECURSIVE Html(_)
Html(page) ==
    IF page = <<>> THEN "" ELSE ElementText(page[1]) \o Html(Tail(page))

\* The answer of the network for a URL; a host nobody serves does not resolve.
NoResponse == [kind |-> "transport", status |-> 0, page |-> <<>>, csv |-> ""]
Lookup(web, url) == IF url \in DOMAIN web THEN web[url] ELSE NoResponse

\* ss[1] \o ss[2] \o ...
RECURSIVE Flatten(_)
Flatten(ss) == IF ss = <<>> THEN <<>> ELSE ss[1] \o Flatten(Tail(ss))

\* df.shape
Shape(df) == <<NRows(df), NCols(df)>>

\* df.empty
Empty(df) == NRows(df) = 0 \/ NCols(df) = 0

(***************************************************************************)
(* resilient_fetch.py: http_get and read_tables_any.                       *)
(***************************************************************************)
\* requests.get followed by raise_for_status().
http_get(web, url) ==
    LET resp == Lookup(web, url) IN
    IF resp.kind = "transport"
    THEN [raised |-> TRUE, err |-> "ConnectionError", resp |-> NoResponse]
    ELSE IF resp.kind = "status"
    THEN [raised |-> TRUE, err |-> ToString(resp.status) \o " Error", resp |-> NoResponse]
    ELSE [raised |-> FALSE, err |-> "", resp |-> resp]

\* urljoin(base_url, ref) for a base that ends in "/" and a ref that is an
\* absolute URL or a plain relative path.
urljoin(base_url, ref) == IF Contains(ref, "://") THEN ref ELSE base_url \o ref

TABLE_MATCH ==
    {"corn", "soy", "soybean", "cash", "basis", "bid", "cbot", "fut", "delivery",
     "month", "price"}

\* The text of the table matches TABLE_MATCH (re.I).
MatchesTableMatch(df) ==
    \/ \E j \in 1..NCols(df) : ContainsAny(Lower(df.cols[j]), TABLE_MATCH)
    \/ \E i \in 1..NRows(df), j \in 1..NCols(df) :
          df.rows[i][j].k = "str" /\ ContainsAny(Lower(df.rows[i][j].s), TABLE_MATCH)

\* The tables of the <table> elements of a page, in document order.
TablesOfPage(page) ==
    LET idx == SelectIdx(Len(page), {x \in 1..Len(page) : page[x].tag = "table"})
    IN Tuple([x \in 1..Len(idx) |-> TableOf(page[idx[x]].ref)])

\* pd.read_html(text, flavor=flavor, match=match): ImportError when the
\* flavor's parser is not installed, ValueError when no table is found.
\* flavor = "default" is pandas' ("lxml", "bs4"): lxml must be there, and
\* html5lib is consulted only when lxml finds no table.
read_html(page, flavor, match, installed) ==
    LET all == TablesOfPage(page)
        idx == SelectIdx(Len(all), {x \in 1..Len(all) :
                   match = "None" \/ MatchesTableMatch(all[x])})
        hit == Tuple([x \in 1..Len(idx) |-> all[idx[x]]])
        need == IF flavor = "default" THEN "lxml" ELSE flavor
    IN IF need \notin installed
       THEN [raised |-> TRUE, err |-> "ImportError", tables |-> <<>>]
       ELSE IF hit = <<>>
       THEN [raised |-> TRUE,
             err |-> IF flavor = "default" /\ "html5lib" \notin installed
                     THEN "ImportError" ELSE "ValueError",
             tables |-> <<>>]
       ELSE [raised |-> FALSE, err |-> "", tables |-> hit]

\* "Try HTML at page-level with/without match": the tables of the four
\* attempts; an attempt that raises adds none.
PageLevelTables(page, installed) ==
    read_html(page, "lxml", "None", installed).tables
    \o read_html(page, "lxml", "TABLE_MATCH", installed).tables
    \o read_html(page, "html5lib", "None", installed).tables
    \o read_html(page, "html5lib", "TABLE_MATCH", installed).tables

\* "Element-level tables": pd.read_html(str(t)) for every <table> element.
ElementLevelTables(page, installed) ==
    LET idx == SelectIdx(Len(page), {x \in 1..Len(page) : page[x].tag = "table"})
    IN Flatten([x \in 1..Len(idx) |->
                   read_html(<<page[idx[x]]>>, "default", "None", installed).tables])

\* re.search(r"cashbid[-_]download\\.php", href, re.I): in the raw string
\* the two backslashes stand for one literal backslash, and the point for
\* any character.
CsvLinkMatch(href) ==
    LET h == Lower(href) IN
    \E i \in 1..(Len(h) - 20) :
        /\ SubSeq(h, i, i + 6) = "cashbid"
        /\ SubSeq(h, i + 7, i + 7) \in {"-", "_"}
        /\ SubSeq(h, i + 8, i + 15) = "download"
        /\ SubSeq(h, i + 16, i + 16) = "\\"
        /\ SubSeq(h, i + 18, i + 20) = "php"

\* The URLs of the CSV export links, in document order.
CsvTargets(page, base_url) ==
    LET idx == SelectIdx(Len(page), {x \in 1..Len(page) :
                   page[x].tag = "a" /\ CsvLinkMatch(page[x].ref)})
    IN Tuple([x \in 1..Len(idx) |-> urljoin(base_url, page[idx[x]].ref)])

\* One CSV export link followed: pd.read_csv of the body, else the first
\* table pd.read_html finds in it, repaired; nothing when the request or
\* both parsers raise.
CsvParsed(web, target, installed) ==
    LET got == http_get(web, target)
        html == read_html(got.resp.page, "default", "None", installed)
    IN IF got.raised \/ got.resp.kind = "garbled" THEN <<>>
       ELSE IF got.resp.csv # "" THEN <<Frame(RepairTable(TableOf(got.resp.csv)))>>
       ELSE IF html.raised THEN <<>>
       ELSE <<Frame(RepairTable(html.tables[1]))>>

\* The tables of the CSV export links.
CsvTables(page, base_url, web, installed) ==
    Flatten([x \in 1..Len(CsvTargets(page, base_url)) |->
                CsvParsed(web, CsvTargets(page, base_url)[x], installed)])

\* A variant that follows every iframe.
FollowEveryIframe(src) == src = src

\* re.search(r"(bid|bids|cash|market|quote|grain|table)", src, re.I)
IframeHint(src) ==
    ContainsAny(Lower(src), {"bid", "bids", "cash", "market", "quote", "grain", "table"})

\* The URLs of the iframes that are followed, in document order.
IframeTargets(page, base_url) ==
    LET idx == SelectIdx(Len(page), {x \in 1..Len(page) :
                   page[x].tag = "iframe" /\ page[x].ref # "" /\ IframeHint(page[x].ref)})
    IN Tuple([x \in 1..Len(idx) |-> urljoin(base_url, page[idx[x]].ref)])

\* One iframe followed: the four page-level attempts on its document.
IframeParsed(web, target, installed) ==
    LET got == http_get(web, target) IN
    IF got.raised \/ got.resp.kind = "garbled" THEN <<>>
    ELSE PageLevelTables(got.resp.page, installed)

\* The tables of the iframes.
IframeTables(page, base_url, web, installed) ==
    Flatten([x \in 1..Len(IframeTargets(page, base_url)) |->
                IframeParsed(web, IframeTargets(page, base_url)[x], installed)])

\* The shapes of a list of tables.
Shapes(tables) == Tuple([i \in 1..Len(tables) |-> Shape(tables[i])])

\* diagnostics["snippets"]: index and shape of the first three cleaned
\* tables (the preview of their first rows is left out).
Snippets(cleaned) ==
    Tuple([i \in 1..(IF Len(cleaned) < 3 THEN Len(cleaned) ELSE 3) |->
              [index |-> i - 1, shape |-> Shape(cleaned[i])]])

\* "Clean and preview": every table found, flattened and stripped.
Cleaned(all_tables) ==
    Tuple([i \in 1..Len(all_tables) |-> Frame(RepairTable(all_tables[i]))])

\* What read_tables_any returns for the tables of the page, of the CSV
\* links and of the iframes.
Discovered(pageT, csvU, csvT, ifU, ifT, cleaned) ==
    [tables |-> cleaned,
     requests |-> csvU \o ifU,
     diagnostics |->
        [page_tables_found |-> Len(pageT),
         page_table_shapes |-> Shapes(pageT),
         iframe_urls_tried |-> ifU,
         iframe_tables_found |-> Len(ifT),
         iframe_table_shapes |-> Shapes(ifT),
         csv_urls_tried |-> csvU,
         csv_tables_found |-> Len(csvT),
         csv_table_shapes |-> Shapes(csvT),
         snippets |-> Snippets(cleaned),
         per_table |-> <<>>]]

\* read_tables_any(resp_text, base_url): the cleaned tables, the
\* diagnostics, and the requests it sent, in order.
read_tables_any(page, base_url, web, installed) ==
    CHOOSE r \in
        {Discovered(pageT, csvU, csvT, ifU, ifT, cleaned) :
            pageT \in {PageLevelTables(page, installed) \o ElementLevelTables(page, installed)},
            csvU \in {CsvTargets(page, base_url)},
            csvT \in {CsvTables(page, base_url, web, installed)},
            ifU \in {IframeTargets(page, base_url)},
            ifT \in {IframeTables(page, base_url, web, installed)},
            cleaned \in {Cleaned(PageLevelTables(page, installed)
                                 \o ElementLevelTables(page, installed)
                                 \o CsvTables(page, base_url, web, installed)
                                 \o IframeTables(page, base_url, web, installed))}} : TRUE

(***************************************************************************)
(* resilient_fetch.py: fetch_coop_table.  The result dict is a record with *)
(* every key the function can set; keys is the set of keys the dict has.   *)
(* (best_preview is left out.)  The function's outcome is recorded as      *)
(* [result, raised, requests, discovered, candidates, normalized]: the     *)
(* dict returned, whether an exception left the function, the URLs         *)
(* requested in order, whether discovery ran, the tables it found, and the *)
(* number of calls of the normalizer.                                      *)
(***************************************************************************)
NoDiags ==
    [page_tables_found |-> 0, page_table_shapes |-> <<>>,
     iframe_urls_tried |-> <<>>, iframe_tables_found |-> 0, iframe_table_shapes |-> <<>>,
     csv_urls_tried |-> <<>>, csv_tables_found |-> 0, csv_table_shapes |-> <<>>,
     snippets |-> <<>>, per_table |-> <<>>]

\* {"ok": False, **meta}
Meta(url, location) ==
    [ok |-> FALSE, error |-> "", keys |-> {"ok", "url", "location"},
     url |-> url, location |-> location,
     status_code |-> 0, content_len |-> 0, has_table_tag |-> FALSE,
     data |-> NoTable, best_table_shape |-> <<>>, table_shape |-> <<>>,
     diags |-> NoDiags]

Outcome(result, requests, discovered, candidates, normalized) ==
    [result |-> result, raised |-> FALSE, requests |-> requests,
     discovered |-> discovered, candidates |-> candidates, normalized |-> normalized]

\* A statement of the body raises err: no dict is returned.
Raised(err, requests, discovered, candidates, normalized) ==
    [result |-> [Meta("", "") EXCEPT !.error = err, !.keys = {}],
     raised |-> TRUE, requests |-> requests,
     discovered |-> discovered, candidates |-> candidates, normalized |-> normalized]

\* A variant without the handler of the second try: what the body raises
\* leaves the function.
Uncaught(meta, o) == o

\* except Exception as e: return {"ok": False, "error": f"parse_error: {e}", **meta}
Caught(meta, o) ==
    IF o.raised
    THEN [o EXCEPT !.raised = FALSE,
                   !.result = [meta EXCEPT !.error = "parse_error: " \o o.result.error,
                                           !.keys = @ \cup {"error"}]]
    ELSE o

\* The loop over the candidates: the position of the first candidate whose
\* normalized row count exceeds every count before it (rows > best_rows,
\* best_rows = 0 at the start); 0 stands for best = None.
RECURSIVE SelectBest(_, _, _, _)
SelectBest(outs, i, best, best_rows) ==
    IF i > Len(outs) THEN best
    ELSE IF ~outs[i].raised /\ NRows(outs[i].df) > best_rows
    THEN SelectBest(outs, i + 1, i, NRows(outs[i].df))
    ELSE SelectBest(outs, i + 1, best, best_rows)

\* per_table_meta: one entry per candidate, with the exception's text or the
\* row count.
PerTable(tables, outs) ==
    Tuple([i \in 1..Len(tables) |->
              [index |-> i - 1,
               norm_error |-> outs[i].err,
               normalized_rows |-> IF outs[i].raised THEN -1 ELSE NRows(outs[i].df),
               shape |-> Shape(tables[i])]])

\* Lines 295-330: the selection among the normalized candidates and the
\* result it leads to.
SelectResult(meta, parsed, outs, requests) ==
    LET best == SelectBest(outs, 1, 0, 0)
        diags == [parsed.diagnostics EXCEPT !.per_table = PerTable(parsed.tables, outs)]
        best_shape == IF best = 0 THEN <<>> ELSE Shape(parsed.tables[best])
    IN IF best = 0 \/ Empty(outs[best].df)
       THEN Outcome([meta EXCEPT !.error = "normalized_empty",
                                 !.keys = @ \cup {"error", "best_table_shape", "diags"},
                                 !.best_table_shape = best_shape,
                                 !.diags = diags],
                    requests, TRUE, parsed.tables, Len(outs))
       ELSE Outcome([meta EXCEPT !.ok = TRUE,
                                 !.keys = @ \cup {"data", "best_table_shape", "diags"},
                                 !.data = outs[best].df,
                                 !.best_table_shape = best_shape,
                                 !.diags = diags],
                    requests, TRUE, parsed.tables, Len(outs))

\* Lines 284-330: what follows discovery.
FetchBody(meta, resp, parsed, location, now) ==
    LET html == Html(resp.page)
        requests == <<meta.url>> \o parsed.requests
    IN IF parsed.tables = <<>>
       THEN Outcome([meta EXCEPT !.error = "no_tables_found",
                                 !.keys = @ \cup {"error", "status_code", "content_len",
                                                  "has_table_tag", "diags"},
                                 !.status_code = resp.status,
                                 !.content_len = Len(html),
                                 !.has_table_tag = Contains(Lower(html), "<table"),
                                 !.diags = parsed.diagnostics],
                    requests, TRUE, <<>>, 0)
       ELSE CHOOSE o \in {SelectResult(meta, parsed, outs, requests) :
                outs \in {Tuple([i \in 1..Len(parsed.tables) |->
                             normalize_bid_table_smart(parsed.tables[i], location, now)])}} :
                TRUE

\* Lines 279-330: the body of the second try.
TryBody(meta, resp, location, now, web, installed) ==
    IF resp.kind = "garbled"
    THEN Raised("UnicodeError", <<meta.url>>, FALSE, <<>>, 0)
    ELSE CHOOSE o \in {FetchBody(meta, resp, parsed, location, now) :
             parsed \in {read_tables_any(resp.page, meta.url, web, installed)}} : TRUE

fetch_coop_table(url, location, now, web, installed) ==
    LET meta == Meta(url, location)
        got == http_get(web, url)
    IN IF got.raised
       THEN Outcome([meta EXCEPT !.error = "http_error: " \o got.err,
                                 !.keys = @ \cup {"error"}],
                    <<url>>, FALSE, <<>>, 0)
       ELSE CHOOSE o \in {Caught(meta, b) :
                b \in {TryBody(meta, got.resp, location, now, web, installed)}} : TRUE

(***************************************************************************)
(* resilient_patch.py: read_tables_any and fetch_coop_table.               *)
(***************************************************************************)
\* "De-dup by shape+columns signature": the first table of every signature.
Dedup(out) ==
    LET idx == SelectIdx(Len(out), {i \in 1..Len(out) :
                   \A h \in 1..(i - 1) :
                       out[h].cols # out[i].cols \/ Shape(out[h]) # Shape(out[i])})
    IN Tuple([x \in 1..Len(idx) |-> out[idx[x]]])

patch_read_tables_any(page, installed) ==
    Dedup(read_html(page, "lxml", "None", installed).tables
          \o read_html(page, "html5lib", "None", installed).tables
          \o ElementLevelTables(page, installed))

\* tables.sort(key=area, reverse=True); tables[0]: the first of the tables
\* of the greatest area.
Area(df) == NRows(df) * NCols(df)

Biggest(tables) ==
    CHOOSE i \in 1..Len(tables) :
        /\ \A h \in 1..Len(tables) : Area(tables[h]) <= Area(tables[i])
        /\ \A h \in 1..(i - 1) : Area(tables[h]) < Area(tables[i])

\* Lines 144-151: what follows read_tables_any.
PatchBody(meta, resp, tables, location, now) ==
    IF tables = <<>>
    THEN Outcome([meta EXCEPT !.error = "no_tables_found",
                              !.keys = @ \cup {"error", "content_len"},
                              !.content_len = Len(Html(resp.page))],
                 <<meta.url>>, TRUE, <<>>, 0)
    ELSE CHOOSE o \in {
            IF r.raised
            THEN Raised(r.err, <<meta.url>>, TRUE, tables, 1)
            ELSE IF Empty(r.df)
            THEN Outcome([meta EXCEPT !.error = "normalized_empty",
                                      !.keys = @ \cup {"error", "table_shape"},
                                      !.table_shape = Shape(tables[Biggest(tables)])],
                         <<meta.url>>, TRUE, tables, 1)
            ELSE Outcome([meta EXCEPT !.ok = TRUE,
                                      !.keys = @ \cup {"data"},
                                      !.data = r.df],
                         <<meta.url>>, TRUE, tables, 1) :
            r \in {normalize_bid_table(tables[Biggest(tables)], location, now)}} : TRUE

\* Lines 143-151: the body of the second try.
PatchTryBody(meta, resp, location, now, installed) ==
    IF resp.kind = "garbled"
    THEN Raised("UnicodeError", <<meta.url>>, FALSE, <<>>, 0)
    ELSE CHOOSE o \in {PatchBody(meta, resp, tables, location, now) :
             tables \in {patch_read_tables_any(resp.page, installed)}} : TRUE

patch_fetch_coop_table(url, location, now, web, installed) ==
    LET meta == Meta(url, location)
        got == http_get(web, url)
    IN IF got.raised
       THEN Outcome([meta EXCEPT !.error = "http_error: " \o got.err,
                                 !.keys = @ \cup {"error"}],
                    <<url>>, FALSE, <<>>, 0)
       ELSE CHOOSE o \in {Caught(meta, b) :
                b \in {PatchTryBody(meta, got.resp, location, now, installed)}} : TRUE

(***************************************************************************)
(* app.py: the scrapers, _normalize_df and aggregate_bids.  A site answers *)
(* a URL with [up, tables]: up = FALSE when pd.read_html(url) raises on    *)
(* the request, tables names the tables of the page in document order.     *)
(* The cent sign of the label "Basis (.../bu)" is written c.               *)
(***************************************************************************)
\* The tables of the cash-bid pages: a grid with futures, a grid without, a
\* grid with two cash columns, a navigation table, a list of plant bids and
\* the grid of a closed market.
RawRefs == {"full", "plain", "dup", "menu", "bid", "shut"}

RawOf(ref) ==
    CASE ref = "full" ->
            [multi |-> FALSE, cols |-> <<"Name", "Cash Price", "Futures Price", "Basis">>,
             rows |-> << <<Str("ADM"), Num(448), Num(460), Num(-12)>> >>]
      [] ref = "plain" ->
            [multi |-> FALSE, cols |-> <<"Delivery", "Cash", "Basis">>,
             rows |-> << <<Str("Nearby"), Str("$4.50"), Str("-0.10")>> >>]
      [] ref = "dup" ->
            [multi |-> FALSE, cols |-> <<"Cash", "Cash Price", "Basis">>,
             rows |-> << <<Num(450), Num(450), Num(-10)>> >>]
      [] ref = "bid" ->
            [multi |-> FALSE, cols |-> <<"Delivery", "Bid">>,
             rows |-> << <<Str("Dec 2025"), Num(440)>> >>]
      [] ref = "shut" ->
            [multi |-> FALSE, cols |-> <<"Cash Price", "Basis">>,
             rows |-> << <<Str("N/A"), Str("N/A")>>, <<Str("4.40"), NaN>> >>]
      [] OTHER ->
            [multi |-> FALSE, cols |-> <<"Home", "About">>,
             rows |-> << <<Str("x"), Str("y")>> >>]

Down == [up |-> FALSE, tables |-> <<>>]
Serves(refs) == [up |-> TRUE, tables |-> refs]

\* pd.read_html(url, flavor="lxml"): raises when the request fails and when
\* the page has no table.
app_read_html(site, url) ==
    IF ~site[url].up \/ site[url].tables = <<>>
    THEN [raised |-> TRUE, tables |-> <<>>]
    ELSE [raised |-> FALSE,
          tables |-> Tuple([x \in 1..Len(site[url].tables) |-> RawOf(site[url].tables[x])])]

\* any(word in c for c in cols), cols the lower-cased labels
AnyLabelHas(df, word) == \E j \in 1..NCols(df) : Contains(Lower(df.cols[j]), word)

\* pd.concat(frames, ignore_index=True) for frames without repeated labels:
\* the union of the columns in the order of first appearance, the rows in
\* order, null where a frame lacks the column.
Concat(frames) ==
    LET cols == UniqueSeq(Flatten([x \in 1..Len(frames) |-> frames[x].cols]))
    IN [multi |-> FALSE,
        cols |-> cols,
        rows |-> Flatten([x \in 1..Len(frames) |->
                    [i \in 1..NRows(frames[x]) |->
                        [j \in 1..Len(cols) |->
                            IF HasCol(frames[x], cols[j])
                            THEN frames[x].rows[i][ColIdx(frames[x], cols[j])[1]]
                            ELSE NaN]]])]

\* The positions of the rows dropna(how="all") keeps.
NotAllNa(df) ==
    SelectIdx(NRows(df), {i \in 1..NRows(df) : \E j \in 1..NCols(df) : ~IsNa(df.rows[i][j])})

\* The loop body of the scrapers: the tables whose header passes the
\* heuristic, with the columns source and source_url set.
Tagged(tables, either, source, url) ==
    LET idx == SelectIdx(Len(tables), {x \in 1..Len(tables) :
                   IF either
                   THEN AnyLabelHas(tables[x], "cash") \/ AnyLabelHas(tables[x], "bid")
                   ELSE AnyLabelHas(tables[x], "cash") /\ AnyLabelHas(tables[x], "basis")})
    IN Tuple([x \in 1..Len(idx) |->
                 Frame(SetColConst(SetColConst(tables[idx[x]], "source", Str(source)),
                                   "source_url", Str(url)))])

\* The frames one URL contributes; none when read_html raises (except
\* Exception: continue / pass).
FramesOf(site, url, either, source) ==
    CHOOSE f \in {IF got.raised THEN <<>> ELSE Tagged(got.tables, either, source, url) :
                     got \in {app_read_html(site, url)}} : TRUE

\* pd.concat(frames, ignore_index=True).dropna(how="all"), pd.DataFrame()
\* when there is no frame.
Collected(frames) ==
    CHOOSE d \in {IF fs = <<>> THEN NoTable
                  ELSE Frame(TakeRows(Concat(fs), NotAllNa(Concat(fs)))) :
                     fs \in {frames}} : TRUE

DunkertonUrls == <<"dunkerton/cashgrid", "dunkerton/cash?35558", "dunkerton/cash?82661">>
HeartlandUrl == "heartland/cash?19834"
MidIowaUrl == "midiowa/cash-bids"
PoetUrl(term) == IF term = "Fairbank" THEN "poet/Fairbank" ELSE "poet/Shell-Rock"

fetch_dunkerton_grid(site) ==
    Collected(Flatten([x \in 1..Len(DunkertonUrls) |->
                  FramesOf(site, DunkertonUrls[x], FALSE, "Dunkerton Co-op")]))

fetch_heartland_washburn(site) ==
    Collected(FramesOf(site, HeartlandUrl, FALSE, "Heartland Coop - Washburn"))

fetch_mid_iowa(site) ==
    Collected(FramesOf(site, MidIowaUrl, FALSE, "Mid Iowa Coop - La Porte City"))

fetch_poet(site, term) ==
    Collected(FramesOf(site, PoetUrl(term), TRUE, "POET - " \o term))

\* The if chain of _normalize_df over cl = c.lower(): a later rule
\* overwrites rename[c].
AppMap(c) ==
    LET cl == Lower(c) IN
    IF cl = "name" THEN "Name"
    ELSE IF Contains(cl, "month") /\ Contains(cl, "basis") THEN "Basis Month"
    ELSE IF Contains(cl, "futures") /\ Contains(cl, "price") THEN "Futures"
    ELSE IF (Contains(cl, "cash") /\ Contains(cl, "price")) \/ cl = "cash" THEN "Cash"
    ELSE IF Len(cl) >= 5 /\ SubSeq(cl, 1, 5) = "basis" /\ ~Contains(cl, "month") THEN "Basis"
    ELSE IF Contains(cl, "delivery") /\ ~Contains(cl, "end") /\ ~Contains(cl, "start")
            /\ ~Contains(cl, "month") THEN "Delivery"
    ELSE c

\* df.columns = [str(c).strip() ...]; df = df.rename(columns=rename)
AppRename(df) == [df EXCEPT !.cols = [j \in 1..NCols(df) |-> AppMap(Strip(df.cols[j]))]]

\* .str.replace(",", "").str.replace("$", "") (and the cent sign)
RECURSIVE DropMoneyChars(_)
DropMoneyChars(s) ==
    IF Len(s) = 0 THEN s
    ELSE (IF SubSeq(s, 1, 1) \in {",", "$"} THEN "" ELSE SubSeq(s, 1, 1))
         \o DropMoneyChars(SubSeq(s, 2, Len(s)))

\* The longest prefix of s made of digits.
RECURSIVE DigitRun(_)
DigitRun(s) ==
    IF Len(s) = 0 \/ PosIn(SubSeq(s, 1, 1), DigitChars) = 0 THEN ""
    ELSE SubSeq(s, 1, 1) \o DigitRun(SubSeq(s, 2, Len(s)))

\* What [-+]?\d*\.?\d+ matches at the start of s, "" when it does not match
\* there: a sign, the digits, and a point with its digits when digits
\* follow the point.
MatchNumberAt(s) ==
    LET sign == IF Len(s) > 0 /\ SubSeq(s, 1, 1) \in {"-", "+"} THEN SubSeq(s, 1, 1) ELSE ""
        u == SubSeq(s, Len(sign) + 1, Len(s))
        d1 == DigitRun(u)
        v == SubSeq(u, Len(d1) + 1, Len(u))
        d2 == IF Len(v) > 0 /\ SubSeq(v, 1, 1) = "." THEN DigitRun(SubSeq(v, 2, Len(v))) ELSE ""
    IN IF d2 # "" THEN sign \o d1 \o "." \o d2
       ELSE IF d1 # "" THEN sign \o d1
       ELSE ""

\* .str.extract(r"([-+]?\d*\.?\d+)")[0]: the leftmost match, "" for none.
RECURSIVE ExtractNumber(_)
ExtractNumber(s) ==
    IF Len(s) = 0 THEN ""
    ELSE IF MatchNumberAt(s) # "" THEN MatchNumberAt(s)
    ELSE ExtractNumber(SubSeq(s, 2, Len(s)))

\* One cell of Futures, Basis or Cash: astype(str), the replacements, the
\* extraction, pd.to_numeric(errors="coerce").
AppCleanCell(c) ==
    CHOOSE n \in {IF t = "" THEN NaN ELSE ToNumeric(Str(t)) :
                     t \in {ExtractNumber(DropMoneyChars(AsStr(c)))}} : TRUE

\* "Clean numeric": for the columns of names that are present; with a
\* repeated label df[col] is a DataFrame, which has no .str.
RECURSIVE AppCleanNumeric(_, _)
AppCleanNumeric(df, names) ==
    IF names = <<>> THEN Ret(Frame(df))
    ELSE IF ~HasCol(df, names[1]) THEN AppCleanNumeric(df, Tail(names))
    ELSE IF IsFrame(df, names[1]) THEN Raise("AttributeError")
    ELSE AppCleanNumeric(
            Frame(SetCol(df, names[1],
                         [i \in 1..NRows(df) |-> AppCleanCell(Series(df, names[1])[i])])),
            Tail(names))

AppKeep == <<"Name", "Delivery", "Basis Month", "Futures", "Basis", "Cash">>

\* "Add hints": None is written "".
AppHints(df, commodity_hint, location_hint) ==
    CHOOSE o \in {IF commodity_hint # "" THEN SetColConst(d, "Commodity", Str(commodity_hint))
                  ELSE d :
                     d \in {IF ~HasCol(df, "Name") /\ location_hint # ""
                            THEN SetColConst(df, "Name", Str(location_hint))
                            ELSE df}} : TRUE

_normalize_df(raw, commodity_hint, location_hint) ==
    CHOOSE o \in {IF PresentLabels(df, AppKeep) = <<>> THEN Ret(NoTable)
                  ELSE AppCleanNumeric(
                          AppHints(TakeCols(df, SelectLabels(df, PresentLabels(df, AppKeep))),
                                   commodity_hint, location_hint),
                          <<"Futures", "Basis", "Cash">>) :
                     df \in {Frame(AppRename(raw))}} : TRUE

\* The five sources in the order aggregate_bids visits them, and the hints
\* it passes for each.
SourceOrder == <<"dunkerton", "heartland", "midiowa", "fairbank", "shellrock">>

LocationHint(s) ==
    CASE s = "heartland" -> "Heartland - Washburn"
      [] s = "midiowa" -> "Mid Iowa - La Porte City"
      [] s = "fairbank" -> "POET - Fairbank"
      [] s = "shellrock" -> "POET - Shell Rock"
      [] OTHER -> ""

CommodityHint(s) == IF s \in {"fairbank", "shellrock"} THEN "Corn" ELSE ""

Fetched(site, s) ==
    CASE s = "dunkerton" -> fetch_dunkerton_grid(site)
      [] s = "heartland" -> fetch_heartland_washburn(site)
      [] s = "midiowa" -> fetch_mid_iowa(site)
      [] s = "fairbank" -> fetch_poet(site, "Fairbank")
      [] OTHER -> fetch_poet(site, "Shell Rock")

\* One source of aggregate_bids: x = fetch(); if not x.empty:
\* parts.append(_normalize_df(x, ...)).  skipped: nothing is appended.
Part(site, s) ==
    CHOOSE p \in {IF Empty(f) THEN [skipped |-> TRUE, out |-> Ret(NoTable)]
                  ELSE [skipped |-> FALSE,
                        out |-> _normalize_df(f, CommodityHint(s), LocationHint(s))] :
                     f \in {Fetched(site, s)}} : TRUE

\* What an aggregation run ends in: the DataFrame returned with its index
\* (the row labels dropna leaves), or the exception that left the function.
AggReturn(df, index) == [raised |-> FALSE, err |-> "", df |-> df, index |-> index]
AggRaise(e) == [raised |-> TRUE, err |-> e, df |-> NoTable, index |-> <<>>]

\* "Create basis cents when Futures available" and "Minor tidy".
BasisCents(df) ==
    IF HasCol(df, "Futures") /\ HasCol(df, "Cash")
    THEN SetCol(df, "Basis (c/bu)",
                [i \in 1..NRows(df) |->
                    IF Series(df, "Cash")[i].k = "num" /\ Series(df, "Futures")[i].k = "num"
                    THEN Num(100 * (Series(df, "Cash")[i].n - Series(df, "Futures")[i].n))
                    ELSE NaN])
    ELSE IF HasCol(df, "Basis") THEN SetCol(df, "Basis (c/bu)", Series(df, "Basis"))
    ELSE df

\* Lines 212-225 of aggregate_bids for the parts appended.
Aggregated(frames, now) ==
    IF frames = <<>> THEN AggReturn(NoTable, <<>>)
    ELSE CHOOSE o \in {AggReturn(
                          Frame(SetColConst(BasisCents(TakeRows(df, NotAllNa(df))),
                                            "Fetched", Num(100 * now))),
                          Tuple([x \in 1..Len(NotAllNa(df)) |-> NotAllNa(df)[x] - 1])) :
                          df \in {Frame(Concat(frames))}} : TRUE

\* The parts of a run in order, and the run: an exception of _normalize_df
\* leaves aggregate_bids.
PartsOf(site) == Tuple([x \in 1..Len(SourceOrder) |-> Part(site, SourceOrder[x])])

Appended(parts) ==
    LET idx == SelectIdx(Len(parts), {x \in 1..Len(parts) : ~parts[x].skipped})
    IN Tuple([x \in 1..Len(idx) |-> parts[idx[x]].out.df])

aggregate_bids(site, now) ==
    CHOOSE o \in {IF \E x \in 1..Len(parts) : parts[x].out.raised
                  THEN AggRaise(parts[CHOOSE x \in 1..Len(parts) :
                                         /\ parts[x].out.raised
                                         /\ \A h \in 1..(x - 1) : ~parts[h].out.raised].out.err)
                  ELSE Aggregated(Appended(parts), now) :
                     parts \in {PartsOf(site)}} : TRUE

(***************************************************************************)
(* app.py: the auto-fetch display block.  What the view ends in: shown is  *)
(* "warning" (st.warning), "table" (st.dataframe with the download button) *)
(* or "none"; raised when an exception leaves the script.                  *)
(***************************************************************************)
NoView == [raised |-> FALSE, err |-> "", shown |-> "none", table |-> NoTable]

DisplayCols ==
    <<"Name", "Commodity", "Basis Month", "Futures", "Basis (c/bu)", "Cash", "source">>

\* Lines 275-286: agg = aggregate_bids(); the warning when agg.empty, else
\* agg[display_cols + ["source_url"]], a KeyError when a label is missing.
auto_fetch_view(agg) ==
    IF agg.raised THEN [NoView EXCEPT !.raised = TRUE, !.err = agg.err]
    ELSE IF Empty(agg.df) THEN [NoView EXCEPT !.shown = "warning"]
    ELSE IF ~HasCol(agg.df, "source_url") THEN [NoView EXCEPT !.raised = TRUE, !.err = "KeyError"]
    ELSE [NoView EXCEPT
             !.shown = "table",
             !.table = Frame(TakeCols(agg.df,
                           SelectLabels(agg.df, PresentLabels(agg.df, DisplayCols)
                                                \o <<"source_url">>)))]

(***************************************************************************)
(* SpecNormalize: a discovered table is drawn and handed to one of the two *)
(* normalizers.                                                            *)
(***************************************************************************)
MaxNormCols == 2
MaxNormRows == 2

\* Vendor headers.
NormLabels == {"Delivery", "Corn", "Soybeans", "Cash", "Futures", "Basis", "Commodity", "Notes"}

\* Wider headers, as bid pages show them: the wide layout with one column
\* per commodity, and the long layouts with and without a basis column, one
\* of them with a label that runs over two blanks.
WideHeaders == {
    <<"Delivery", "Corn", "Soybeans">>,
    <<"Commodity", "Delivery", "Notes">>,
    <<"Commodity", "Cash", "Futures">>,
    <<"Commodity", "Cash", "Basis">>,
    <<"Commodity", "Cash  Price", "Basis">>,
    <<"Delivery", "Cash", "Futures">>,
    <<"Commodity", "Delivery", "Cash", "Futures">>,
    <<"Commodity", "Delivery", "Cash", "Futures", "Basis">>}

NormHeaders == (SeqsUpTo(NormLabels, MaxNormCols) \ {<<>>}) \cup WideHeaders

\* The kinds of row a bid page shows: each gives the cell under a header.
RowKinds == {"priced", "other", "unpriced"}

CellOf(label, kind) ==
    CASE kind = "priced" ->
            (CASE label = "Delivery" -> Str("Nearby")
               [] label = "Corn" -> Num(448)
               [] label = "Soybeans" -> Num(1142)
               [] label \in {"Cash", "Cash  Price"} -> Num(448)
               [] label = "Futures" -> Num(460)
               [] label = "Basis" -> Num(-12)
               [] label = "Commodity" -> Str("Corn")
               [] OTHER -> Str("call"))
      [] kind = "other" ->
            (CASE label = "Delivery" -> Str("Dec 2025")
               [] label = "Corn" -> NaN
               [] label = "Soybeans" -> Num(1130)
               [] label \in {"Cash", "Cash  Price"} -> Str("$5.10")
               [] label = "Futures" -> NaN
               [] label = "Basis" -> Str("N/A")
               [] label = "Commodity" -> Str("Wheat")
               [] OTHER -> Num(700))
      [] OTHER ->
            (CASE label = "Delivery" -> NaN
               [] label = "Corn" -> Str("N/A")
               [] label = "Soybeans" -> NaN
               [] label \in {"Cash", "Cash  Price"} -> Str("N/A")
               [] label = "Futures" -> Num(455)
               [] label = "Basis" -> NaN
               [] label = "Commodity" -> Str("Soybeans")
               [] OTHER -> NaN)

NormInputs ==
    {[multi |-> FALSE, cols |-> cs,
      rows |-> [i \in 1..Len(ks) |-> [j \in 1..Len(cs) |-> CellOf(cs[j], ks[i])]]] :
        cs \in NormHeaders,
        ks \in SeqsUpTo(RowKinds, MaxNormRows)}

Locations == {"Elevator"}
Epochs == {1}

(***************************************************************************)
(* SpecRepair: a table is drawn, repaired, and the result repaired again.  *)
(***************************************************************************)
\* Column labels as a parser yields them: repeated labels and labels that
\* already end in _2 included.
RepairLabels == {"a", "a_2", "b"}
\* Labels of a two-level MultiIndex header.
RepairLevels == {"a|nan", "a|b", "a|"}
RepairCells == {NaN, Str("x")}

RepairInputs ==
    UNION {
      {[multi |-> mi, cols |-> cs, rows |-> rs] :
          rs \in SeqsUpTo([1..Len(cs) -> RepairCells], MaxRepairRows)} :
      <<mi, cs>> \in ({FALSE} \X SeqsUpTo(RepairLabels, MaxRepairCols))
               \cup ({TRUE} \X SeqsUpTo(RepairLevels, MaxRepairCols - 1))}

NoOutcome == Outcome(Meta("", ""), <<>>, FALSE, <<>>, 0)

AggIdle ==
    /\ sites = <<>>
    /\ aout = AggReturn(NoTable, <<>>)
    /\ astage = "idle"
    /\ view = NoView

FetchIdle ==
    /\ net = <<>>
    /\ parsers = {}
    /\ fout = NoOutcome
    /\ fstage = "idle"

NormIdle ==
    /\ cand = NoTable
    /\ cand0 = NoTable
    /\ nout = Ret(NoTable)
    /\ nstage = "idle"

InitRepair ==
    /\ tbl \in RepairInputs
    /\ rep1 = NoTable
    /\ rep2 = NoTable
    /\ rstage = "raw"
    /\ NormIdle
    /\ FetchIdle
    /\ AggIdle

\* repair(tbl)
Repair ==
    /\ rstage = "raw"
    /\ rep1' = RepairTable(tbl)
    /\ rstage' = "once"
    /\ UNCHANGED <<tbl, rep2, normVars, fetchVars, aggVars>>

\* repair(repair(tbl))
RepairAgain ==
    /\ rstage = "once"
    /\ rep2' = RepairTable(rep1)
    /\ rstage' = "twice"
    /\ UNCHANGED <<tbl, rep1, normVars, fetchVars, aggVars>>

NextRepair == Repair \/ RepairAgain

SpecRepair == InitRepair /\ [][NextRepair]_vars

Distinct(cols) == \A i, j \in 1..Len(cols) : cols[i] = cols[j] => i = j

\* C1 (header uniqueness): after repair no two columns of the resulting
\* table share an identical label.
C1_HeaderUnique == rstage # "raw" => Distinct(rep1.cols)

\* C2 (idempotence of repair): repairing a repaired table yields the same
\* column labels, rows and cells as repairing once.
C2_RepairIdempotent == rstage = "twice" => rep2 = rep1

RepairIdle ==
    /\ tbl = NoTable
    /\ rep1 = NoTable
    /\ rep2 = NoTable
    /\ rstage = "idle"

InitNormalize ==
    /\ cand \in NormInputs
    /\ cand0 = cand
    /\ nout = Ret(NoTable)
    /\ nstage = "in"
    /\ RepairIdle
    /\ FetchIdle
    /\ AggIdle

\* normalize_bid_table_smart(cand, location): works on a copy of cand.
NormalizeSmart ==
    /\ nstage = "in"
    /\ \E location \in Locations, now \in Epochs :
          nout' = normalize_bid_table_smart(cand, location, now)
    /\ nstage' = "smart"
    /\ UNCHANGED <<cand, cand0, repairVars, fetchVars, aggVars>>

\* normalize_bid_table(cand, location): assigns cand's labels first.
NormalizePatch ==
    /\ nstage = "in"
    /\ \E location \in Locations, now \in Epochs :
          nout' = normalize_bid_table(cand, location, now)
    /\ cand' = PatchTidyLabels(cand)
    /\ nstage' = "patch"
    /\ UNCHANGED <<cand0, repairVars, fetchVars, aggVars>>

NextNormalize == NormalizeSmart \/ NormalizePatch

SpecNormalize == InitNormalize /\ [][NextNormalize]_vars

\* The cells of row i under the label, over every column that carries it.
CellsAt(df, label, i) == {df.rows[i][j] : j \in {h \in 1..NCols(df) : df.cols[h] = label}}

\* Row i has a non-null cash or a non-null basis.
PricedRow(df, i) ==
    \/ \E c \in CellsAt(df, "cash", i) : ~IsNa(c)
    \/ \E c \in CellsAt(df, "basis", i) : ~IsNa(c)

Returned == nstage \in {"smart", "patch"} /\ ~nout.raised

\* C3 (row retention): whenever normalize returns a result, every returned
\* row has cash non-null or basis non-null, also when the table ends up with
\* only one of the two columns or with neither.
C3_RowRetention ==
    Returned => \A i \in 1..NRows(nout.df) : PricedRow(nout.df, i)

\* The discovered table has a column that normalize_bid_table_smart maps to
\* the canonical field.
InputMaps(canon) == \E j \in 1..NCols(cand0) : SmartMap(cand0.cols[j]) = canon

\* The position of the first input column mapped to the canonical field.
InputCol(canon) ==
    CHOOSE j \in 1..NCols(cand0) :
        /\ SmartMap(cand0.cols[j]) = canon
        /\ \A h \in 1..(j - 1) : SmartMap(cand0.cols[h]) # canon

\* The (cash, futures, basis) triples of a normalized table.
PriceTriples(df) ==
    {<<Series(df, "cash")[i], Series(df, "futures")[i], Series(df, "basis")[i]>> :
        i \in 1..NRows(df)}

\* C9 (basis derivation): for an input without a basis column and with a
\* cash and a futures column, normalize_bid_table_smart outputs, for every
\* row whose cash and futures are both numbers, a row with
\* basis = cash - futures (4.48 and 4.60 give -0.12); when the input has a
\* basis column, its values are the output's, not a derived value.
C9_BasisDerived ==
    /\ (/\ nstage = "smart"
        /\ InputMaps("cash") /\ InputMaps("futures") /\ ~InputMaps("basis")
        /\ \E i \in 1..NRows(cand0) :
              cand0.rows[i][InputCol("cash")].k = "num"
              /\ cand0.rows[i][InputCol("futures")].k = "num")
       => /\ ~nout.raised
          /\ \A l \in {"cash", "futures", "basis"} :
                HasCol(nout.df, l) /\ ~IsFrame(nout.df, l)
          /\ \A i \in 1..NRows(cand0) :
                LET c == cand0.rows[i][InputCol("cash")]
                    f == cand0.rows[i][InputCol("futures")]
                IN (c.k = "num" /\ f.k = "num")
                      => <<c, f, Num(c.n - f.n)>> \in PriceTriples(nout.df)
          /\ \A t \in PriceTriples(nout.df) :
                (t[1].k = "num" /\ t[2].k = "num") => t[3] = Num(t[1].n - t[2].n)
    /\ (/\ nstage = "smart"
        /\ InputMaps("cash") /\ InputMaps("futures") /\ InputMaps("basis")
        /\ \E i \in 1..NRows(cand0) : cand0.rows[i][InputCol("basis")].k = "num")
       => /\ ~nout.raised
          /\ HasCol(nout.df, "basis") /\ ~IsFrame(nout.df, "basis")
          /\ \A i \in 1..NRows(cand0) :
                cand0.rows[i][InputCol("basis")].k = "num"
                   => \E o \in 1..NRows(nout.df) :
                         Series(nout.df, "basis")[o] = cand0.rows[i][InputCol("basis")]

\* The (delivery, commodity, cash) triples a wide table stands for: one per
\* input row and commodity column with a priced cell.
WideTriples(df) ==
    {<<df.rows[i][1], Str(df.cols[j]), df.rows[i][j]>> :
        <<i, j>> \in {<<i, j>> \in (1..NRows(df)) \X (2..NCols(df)) : df.rows[i][j].k = "num"}}

\* The (delivery, commodity, cash) triples of a normalized table.
LongTriples(df) ==
    {<<Series(df, "delivery")[i], Series(df, "commodity")[i], Series(df, "cash")[i]>> :
        i \in 1..NRows(df)}

\* C10 (wide-to-long reshape): a table with the columns Delivery, Corn,
\* Soybeans normalizes to one row per (input row, commodity column) pair
\* with a priced cell, carrying the row's delivery, the column's name as
\* commodity and the cell as cash; the row [Nearby, 4.48, 11.42] gives the
\* two rows (Nearby, Corn, 4.48) and (Nearby, Soybeans, 11.42).
C10_WideToLong ==
    (/\ nstage = "smart"
     /\ cand0.cols = <<"Delivery", "Corn", "Soybeans">>
     /\ WideTriples(cand0) # {})
    => /\ ~nout.raised
       /\ \A l \in {"delivery", "commodity", "cash"} :
             HasCol(nout.df, l) /\ ~IsFrame(nout.df, l)
       /\ LongTriples(nout.df) = WideTriples(cand0)
       /\ NRows(nout.df) = Cardinality(WideTriples(cand0))

(***************************************************************************)
(* SpecFetch: the network is drawn, and one of the two fetch_coop_table    *)
(* runs against it.                                                        *)
(***************************************************************************)
BaseUrl == "http://coop/"

\* What a page holds besides its tables: a comment, a link to the CSV
\* export as sites write it, a link the export pattern accepts, an iframe
\* with a market page, one with a market page of another host, an iframe
\* with something else.
Extras ==
    {<<>>,
     <<CommentEl("<TABLE>")>>,
     <<AnchorEl("cashbid-download.php")>>,
     <<AnchorEl("cashbid-download\\xphp")>>,
     <<IframeEl("bids.html")>>,
     <<IframeEl("http://quotes/bids.html")>>,
     <<IframeEl("ads.html")>>}

Pages ==
    {[x \in 1..Len(refs) |-> TableEl(refs[x])] \o extra :
        refs \in SeqsUpTo(TableRefs, MaxPageTables), extra \in Extras}

MainResponses ==
    {[kind |-> "ok", status |-> 200, page |-> p, csv |-> ""] : p \in Pages}
    \cup {[kind |-> "garbled", status |-> 200, page |-> <<>>, csv |-> ""],
          [kind |-> "status", status |-> 404, page |-> <<>>, csv |-> ""],
          [kind |-> "status", status |-> 503, page |-> <<CommentEl("down")>>, csv |-> ""],
          NoResponse}

\* What the linked resources answer.
SubResponses ==
    {NoResponse,
     [kind |-> "ok", status |-> 200, page |-> <<TableEl("bids")>>, csv |-> ""],
     [kind |-> "ok", status |-> 200, page |-> <<IframeEl("market.html")>>, csv |-> ""],
     [kind |-> "ok", status |-> 200, page |-> <<>>, csv |-> "list"]}

SubUrls == {BaseUrl \o "bids.html", BaseUrl \o "cashbid-download\\xphp"}

\* The parsers the installation has.
Installs == {{"lxml", "html5lib"}, {"lxml"}}

\* The page links to a resource that discovery requests.
FollowsLinks(page) ==
    CsvTargets(page, BaseUrl) # <<>> \/ IframeTargets(page, BaseUrl) # <<>>

InitFetch ==
    /\ \E main \in MainResponses, sub \in SubResponses :
          /\ FollowsLinks(main.page) \/ sub = NoResponse
          /\ net = [u \in {BaseUrl} \cup SubUrls |-> IF u = BaseUrl THEN main ELSE sub]
    /\ parsers \in Installs
    /\ fout = NoOutcome
    /\ fstage = "in"
    /\ RepairIdle
    /\ NormIdle
    /\ AggIdle

\* resilient_fetch.fetch_coop_table(url, location)
FetchSmart ==
    /\ fstage = "in"
    /\ \E location \in Locations, now \in Epochs :
          fout' = fetch_coop_table(BaseUrl, location, now, net, parsers)
    /\ fstage' = "smart"
    /\ UNCHANGED <<net, parsers, repairVars, normVars, aggVars>>

\* resilient_patch.fetch_coop_table(url, location)
FetchPatch ==
    /\ fstage = "in"
    /\ \E location \in Locations, now \in Epochs :
          fout' = patch_fetch_coop_table(BaseUrl, location, now, net, parsers)
    /\ fstage' = "patch"
    /\ UNCHANGED <<net, parsers, repairVars, normVars, aggVars>>

NextFetch == FetchSmart \/ FetchPatch

SpecFetch == InitFetch /\ [][NextFetch]_vars

\* The kind of a failure: the text of "error" before the first colon.
ErrorKind(e) ==
    IF \E i \in 1..Len(e) : SubSeq(e, i, i) = ":"
    THEN SubSeq(e, 1, (CHOOSE i \in 1..Len(e) :
                          /\ SubSeq(e, i, i) = ":"
                          /\ \A h \in 1..(i - 1) : SubSeq(e, h, h) # ":") - 1)
    ELSE e

\* What the normalizer of the variant that ran makes of candidate i.
CandOut(i) ==
    IF fstage = "smart"
    THEN normalize_bid_table_smart(fout.candidates[i], fout.result.location, 1)
    ELSE normalize_bid_table(fout.candidates[i], fout.result.location, 1)

\* Its row count; -1 when normalization raises.
CandRows(i) == IF CandOut(i).raised THEN -1 ELSE NRows(CandOut(i).df)

\* The first of the candidates with the greatest row count.
FirstGreatest ==
    CHOOSE i \in 1..Len(fout.candidates) :
        /\ \A h \in 1..Len(fout.candidates) : CandRows(h) <= CandRows(i)
        /\ \A h \in 1..(i - 1) : CandRows(h) < CandRows(i)

\* C4 (best-candidate selection): for a non-empty list of candidates, some
\* of which normalizes to at least one row, the selector normalizes every
\* candidate and returns the normalized result of the candidate with the
\* greatest row count, the first-seen one among equals.
C4_BestCandidate ==
    (/\ fstage \in {"smart", "patch"}
     /\ fout.candidates # <<>>
     /\ \E i \in 1..Len(fout.candidates) : CandRows(i) >= 1)
    => /\ fout.normalized = Len(fout.candidates)
       /\ fout.result.ok
       /\ fout.result.data = CandOut(FirstGreatest).df

\* Candidate i normalizes to a table with at least one priced row.
CandPriced(i) ==
    ~CandOut(i).raised /\ \E r \in 1..NRows(CandOut(i).df) : PricedRow(CandOut(i).df, r)

\* C5 (NormalizedEmpty classification): when at least one raw table was
\* discovered, resilient_fetch's fetch_coop_table returns the failure
\* normalized_empty, with one telemetry entry per candidate, exactly when no
\* candidate normalizes to a table with a priced row; every ok:true result
\* carries data with at least one row whose cash or basis is non-null.
C5_NormalizedEmpty ==
    (fstage = "smart" /\ fout.candidates # <<>>)
    => /\ (ErrorKind(fout.result.error) = "normalized_empty")
              <=> ~\E i \in 1..Len(fout.candidates) : CandPriced(i)
       /\ ErrorKind(fout.result.error) = "normalized_empty"
              => Len(fout.result.diags.per_table) = Len(fout.candidates)
       /\ fout.result.ok
              => \E r \in 1..NRows(fout.result.data) : PricedRow(fout.result.data, r)

ErrorKinds == {"http_error", "no_tables_found", "normalized_empty", "parse_error"}

BarePage(page) ==
    \A x \in 1..Len(page) :
        /\ page[x].tag # "table"
        /\ page[x].tag = "iframe"
              => ~\E w \in {"bid", "cash", "market", "quote", "grain", "table"} :
                     Contains(Lower(page[x].ref), w)
        /\ page[x].tag = "a" => ~Contains(Lower(page[x].ref), "cashbid")

\* C8 (graceful degradation): for a document with no <table> element, no
\* matching iframe and no cashbid-download link, discovery returns no table,
\* does not raise and sends no further request, and fetch_coop_table
\* returns the failure no_tables_found with the content length and the
\* presence of a table tag.
C8_GracefulDegradation ==
    (fstage = "smart" /\ net[BaseUrl].kind = "ok" /\ BarePage(net[BaseUrl].page))
    => /\ ~fout.raised
       /\ fout.discovered
       /\ fout.candidates = <<>>
       /\ fout.requests = <<BaseUrl>>
       /\ ~fout.result.ok
       /\ fout.result.error = "no_tables_found"
       /\ {"content_len", "has_table_tag", "status_code", "diags"} \subseteq fout.result.keys
       /\ fout.result.content_len = Len(Html(net[BaseUrl].page))
       /\ fout.result.has_table_tag = Contains(Lower(Html(net[BaseUrl].page)), "<table")
       /\ fout.result.diags.page_tables_found = 0
       /\ fout.result.diags.iframe_urls_tried = <<>>
       /\ fout.result.diags.csv_urls_tried = <<>>

\* A page with an iframe that is not followed ended in no_tables_found.
C8_Witness ==
    /\ fstage = "smart"
    /\ net[BaseUrl].kind = "ok"
    /\ BarePage(net[BaseUrl].page)
    /\ \E x \in 1..Len(net[BaseUrl].page) : net[BaseUrl].page[x].tag = "iframe"
    /\ fout.result.error = "no_tables_found"

(***************************************************************************)
(* SpecAggregate: the sites answer, and aggregate_bids runs once.          *)
(***************************************************************************)
Sources == {SourceOrder[x] : x \in 1..Len(SourceOrder)}

\* The URLs a source reads.
UrlsOf(s) ==
    CASE s = "dunkerton" -> {DunkertonUrls[x] : x \in 1..Len(DunkertonUrls)}
      [] s = "heartland" -> {HeartlandUrl}
      [] s = "midiowa" -> {MidIowaUrl}
      [] s = "fairbank" -> {PoetUrl("Fairbank")}
      [] OTHER -> {PoetUrl("Shell Rock")}

\* What a URL may answer.
AnswersOf(url) ==
    CASE url \in {DunkertonUrls[1], HeartlandUrl} ->
            {Down, Serves(<<"full">>), Serves(<<"plain">>), Serves(<<"dup">>)}
      [] url = DunkertonUrls[2] -> {Down, Serves(<<"menu", "shut">>)}
      [] url = DunkertonUrls[3] -> {Down, Serves(<<"menu">>)}
      [] url = MidIowaUrl -> {Down, Serves(<<"plain">>), Serves(<<>>)}
      [] url = PoetUrl("Fairbank") -> {Down, Serves(<<"bid">>), Serves(<<"full">>)}
      [] OTHER -> {Down, Serves(<<"bid">>)}

\* The URLs in a fixed order, and the worlds: one answer per URL.
UrlOrder == DunkertonUrls \o <<HeartlandUrl, MidIowaUrl, PoetUrl("Fairbank"), PoetUrl("Shell Rock")>>

SiteWorlds ==
    {[u \in {UrlOrder[x] : x \in 1..Len(UrlOrder)} |->
         pick[CHOOSE x \in 1..Len(UrlOrder) : UrlOrder[x] = u]] :
        pick \in AnswersOf(UrlOrder[1]) \X AnswersOf(UrlOrder[2]) \X AnswersOf(UrlOrder[3])
                 \X AnswersOf(UrlOrder[4]) \X AnswersOf(UrlOrder[5])
                 \X AnswersOf(UrlOrder[6]) \X AnswersOf(UrlOrder[7])}

InitAggregate ==
    /\ sites \in SiteWorlds
    /\ aout = AggReturn(NoTable, <<>>)
    /\ astage = "in"
    /\ view = NoView
    /\ RepairIdle
    /\ NormIdle
    /\ FetchIdle

\* aggregate_bids()
AggregateBids ==
    /\ astage = "in"
    /\ \E now \in Epochs : aout' = aggregate_bids(sites, now)
    /\ astage' = "done"
    /\ UNCHANGED <<sites, view, repairVars, normVars, fetchVars>>

\* The auto-fetch branch of the page script: aggregate_bids() and the
\* display of what it returns.
AutoFetchView ==
    /\ astage = "in"
    /\ \E now \in Epochs : \E agg \in {aggregate_bids(sites, now)} :
          /\ aout' = agg
          /\ view' = auto_fetch_view(agg)
    /\ astage' = "view"
    /\ UNCHANGED <<sites, repairVars, normVars, fetchVars>>

NextAggregate == AggregateBids \/ AutoFetchView

SpecAggregate == InitAggregate /\ [][NextAggregate]_vars

\* Source s contributes a part to the run on the sites w: its fetch returns
\* rows and its normalization returns.
Succeeds(w, s) == ~Part(w, s).skipped /\ ~Part(w, s).out.raised

\* The sites w with every source but s failing.
Alone(w, s) == [u \in DOMAIN w |-> IF u \in UrlsOf(s) THEN w[u] ELSE Down]

\* The number of rows that the parts before position x hold.
RECURSIVE RowsBefore(_, _)
RowsBefore(parts, x) ==
    IF x <= 1 THEN 0
    ELSE RowsBefore(parts, x - 1)
         + (IF parts[x - 1].skipped THEN 0 ELSE NRows(parts[x - 1].out.df))

\* The non-null cells of row i, by label.
RowContent(df, i) == {<<df.cols[j], df.rows[i][j]>> : j \in {h \in 1..NCols(df) : ~IsNa(df.rows[i][h])}}

\* The rows of the result o of a run on the sites w that stem from the
\* source at position x: those whose index label lies in the block of its
\* part.
RowsOfSource(o, w, x) ==
    LET parts == PartsOf(w)
        from == RowsBefore(parts, x)
        n == IF parts[x].skipped THEN 0 ELSE NRows(parts[x].out.df)
        idx == SelectIdx(Len(o.index), {i \in 1..Len(o.index) :
                   o.index[i] >= from /\ o.index[i] < from + n})
    IN [i \in 1..Len(idx) |-> RowContent(o.df, idx[i])]

\* The run returns.
C7_Completes == astage = "done" => ~aout.raised

\* When every source succeeds, each source's rows are those of the run in
\* which the other sources fail.
C7_SameContent ==
    (astage = "done" /\ ~aout.raised /\ \A s \in Sources : Succeeds(sites, s))
    => \A x \in 1..Len(SourceOrder) :
          RowsOfSource(aggregate_bids(Alone(sites, SourceOrder[x]), 1),
                       Alone(sites, SourceOrder[x]), x)
          = RowsOfSource(aout, sites, x)

\* The result holds an entry for every source that failed.
C7_FailureRecorded ==
    (astage = "done" /\ ~aout.raised)
    => \A x \in 1..Len(SourceOrder) :
          ~Succeeds(sites, SourceOrder[x]) => RowsOfSource(aout, sites, x) # <<>>

\* C7 (multi-source isolation): whatever sources fail in their fetch or
\* their normalization, aggregate_bids completes, the rows of every
\* succeeding source have the content they have when no other source
\* fails, and a failure entry is recorded for each failed source.
C7_MultiSourceIsolation == C7_Completes /\ C7_SameContent /\ C7_FailureRecorded

(***************************************************************************)
(* Claims about discovery, checked under SpecFetch.                        *)
(***************************************************************************)
\* Two tables have the same structural signature: the same column labels
\* and the same row and column count.
SameSignature(a, b) == a.cols = b.cols /\ Shape(a) = Shape(b)

\* No two tables of the list have the same signature.
Deduplicated(tables) ==
    \A i, j \in 1..Len(tables) : i # j => ~SameSignature(tables[i], tables[j])

\* C16 (candidate deduplication): the list of tables that discovery returns
\* never holds two tables of the same structural signature.
C16_CandidateDedup ==
    (fstage \in {"smart", "patch"} /\ fout.discovered) => Deduplicated(fout.candidates)

\* The list that resilient_patch's read_tables_any returns is deduplicated.
C16_PatchOnly ==
    (fstage = "patch" /\ fout.discovered) => Deduplicated(fout.candidates)

\* The URLs of the iframes of a page, whatever their src.
IframeUrlsOf(page) ==
    {urljoin(BaseUrl, page[x].ref) : x \in {y \in 1..Len(page) : page[y].tag = "iframe"}}

\* The iframe URLs of the parent page that the run requested.
FollowedIframes ==
    {fout.requests[x] : x \in 1..Len(fout.requests)} \cap IframeUrlsOf(net[BaseUrl].page)

\* scheme and host of a URL: the text before the first "/" after "://".
SchemeAt(url) == {i \in 1..(Len(url) - 2) : SubSeq(url, i, i + 2) = "://"}

Origin(url) ==
    IF SchemeAt(url) = {} THEN ""
    ELSE LET s == (CHOOSE i \in SchemeAt(url) : \A h \in SchemeAt(url) : i <= h) + 3
             cut == {n \in s..Len(url) : SubSeq(url, n, n) = "/"} \cup {Len(url) + 1}
         IN SubSeq(url, 1, (CHOOSE n \in cut : \A h \in cut : n <= h) - 1)

\* The src names bid, price or market content.
HintsAtBids(url) ==
    \E w \in {"bid", "cash", "market", "quote", "grain", "table"} : Contains(Lower(url), w)

\* Every request of the run is for the parent page or for a resource the
\* parent page itself links to.
C17_OneHop ==
    (fstage \in {"smart", "patch"}) =>
        \A x \in 1..Len(fout.requests) :
            \/ fout.requests[x] = BaseUrl
            \/ \E y \in 1..Len(net[BaseUrl].page) :
                  /\ net[BaseUrl].page[y].tag \in {"a", "iframe"}
                  /\ fout.requests[x] = urljoin(BaseUrl, net[BaseUrl].page[y].ref)

\* Every iframe requested has a src that hints at bid, price or market content.
C17_HintedOnly ==
    (fstage \in {"smart", "patch"}) => \A u \in FollowedIframes : HintsAtBids(u)

\* C17 (iframe follow ordering and bound): an iframe's URL is requested only
\* when parsing the parent page produced no table, only for an iframe of
\* the parent page's origin whose src hints at bid, price or market content,
\* and never for an iframe of a fetched iframe document.
C17_IframeFollow ==
    (fstage \in {"smart", "patch"} /\ fout.discovered) =>
        /\ \A u \in FollowedIframes :
              /\ fout.result.diags.page_tables_found = 0
              /\ Origin(u) = Origin(BaseUrl)
              /\ HintsAtBids(u)
        /\ C17_OneHop

\* An iframe of the parent page's origin is requested although parsing the
\* parent page produced a table.
C17_FollowedDespiteTables ==
    (fstage = "smart" /\ fout.discovered) =>
        \A u \in FollowedIframes :
            Origin(u) = Origin(BaseUrl) => fout.result.diags.page_tables_found = 0

\* Every iframe requested is of the parent page's origin.
C17_SameOrigin ==
    (fstage = "smart" /\ fout.discovered) =>
        \A u \in FollowedIframes : Origin(u) = Origin(BaseUrl)

\* An iframe document that holds an iframe itself was fetched.
C17_NestedFetched ==
    /\ fstage = "smart"
    /\ FollowedIframes # {}
    /\ \E u \in FollowedIframes :
          /\ u \in DOMAIN net
          /\ net[u].kind = "ok"
          /\ \E y \in 1..Len(net[u].page) : net[u].page[y].tag = "iframe"

(***************************************************************************)
(* Claims about the steps of the normalizers, checked under SpecNormalize. *)
(***************************************************************************)
\* The table on which the variant that ran cleans its price columns, and
\* what the cleaning makes of it.
BeforeCoercion ==
    IF nstage = "smart"
    THEN SmartRenamed(_long_form(_strip_empty(_flatten_columns(cand0))))
    ELSE Ret(PatchKeep(PatchRename(PatchTidyLabels(cand0))))

AfterCoercion ==
    IF nstage = "smart" THEN SmartCleaned(BeforeCoercion) ELSE PatchCleaned(BeforeCoercion.df)

\* The text of the cell holds no digit, hence no number.
NoNumberIn(c) ==
    \A x \in 1..Len(AsStr(c)) : PosIn(SubSeq(AsStr(c), x, x), DigitChars) = 0

\* The price columns of the table that is cleaned which hold a cell without
\* a number.
UnparseablePrices ==
    {col \in {"cash", "basis", "futures"} :
        /\ ~BeforeCoercion.raised
        /\ HasCol(BeforeCoercion.df, col)
        /\ \E i \in 1..NRows(BeforeCoercion.df) :
              \E c \in CellsAt(BeforeCoercion.df, col, i) : NoNumberIn(c)}

\* C11 (price nullability): numeric coercion of a cash, basis or futures
\* column does not raise and turns every cell whose text holds no number
\* into null, never into a number; and a returned row never has both cash
\* and basis null when one of the two columns exists.
C11_PriceNullability ==
    (nstage \in {"smart", "patch"} /\ UnparseablePrices # {})
    => /\ ~AfterCoercion.raised
       /\ \A col \in UnparseablePrices : \A i \in 1..NRows(BeforeCoercion.df) :
             (\A c \in CellsAt(BeforeCoercion.df, col, i) : NoNumberIn(c))
             => \A c \in CellsAt(AfterCoercion.df, col, i) : IsNa(c)
       /\ (~nout.raised /\ (HasCol(nout.df, "cash") \/ HasCol(nout.df, "basis")))
             => \A i \in 1..NRows(nout.df) : PricedRow(nout.df, i)

\* The same for resilient_patch's normalizer on a table with one column per
\* price field.
C11_PatchOnly ==
    (nstage = "patch" /\ UnparseablePrices # {}
       /\ \A col \in {"cash", "basis", "futures"} : ~IsFrame(BeforeCoercion.df, col))
    => /\ ~AfterCoercion.raised
       /\ \A col \in UnparseablePrices : \A i \in 1..NRows(BeforeCoercion.df) :
             (\A c \in CellsAt(BeforeCoercion.df, col, i) : NoNumberIn(c))
             => \A c \in CellsAt(AfterCoercion.df, col, i) : IsNa(c)

\* The table on which the variant that ran looks for a cash column, and
\* what the step makes of it.
BeforeFallback ==
    IF nstage = "smart" THEN AfterCoercion ELSE Ret(PatchRename(PatchTidyLabels(cand0)))

AfterFallback ==
    IF nstage = "smart" THEN SmartCashFilled(BeforeFallback)
    ELSE Ret(PatchKeep(BeforeFallback.df))

\* The columns not mapped to a canonical field.
Unmapped(df) ==
    {j \in 1..NCols(df) :
        df.cols[j] \notin {"commodity", "delivery", "basis", "futures", "cash", "location"}}

\* The first unmapped column with the highest count of numeric values.
BestUnmapped(df) ==
    CHOOSE j \in Unmapped(df) :
        \A h \in Unmapped(df) :
            \/ NumericCount(df, h) < NumericCount(df, j)
            \/ (NumericCount(df, h) = NumericCount(df, j) /\ j <= h)

\* Some unmapped column qualifies: its best has a numeric value, and at
\* least one third of its values are numeric.
FallbackDue(df) ==
    /\ Unmapped(df) # {}
    /\ NumericCount(df, BestUnmapped(df)) >= 1
    /\ 3 * NumericCount(df, BestUnmapped(df)) >= NRows(df)

\* C13 (cash fallback): when no column maps to cash, the step designates as
\* cash the first unmapped column with the highest count of numeric values,
\* provided a third of its values are numeric; otherwise the table has no
\* cash column afterwards.
C13_CashFallback ==
    (nstage \in {"smart", "patch"} /\ ~BeforeFallback.raised
       /\ ~HasCol(BeforeFallback.df, "cash"))
    => /\ ~AfterFallback.raised
       /\ IF FallbackDue(BeforeFallback.df)
          THEN /\ HasCol(AfterFallback.df, "cash")
               /\ ~IsFrame(AfterFallback.df, "cash")
               /\ \A i \in 1..NRows(AfterFallback.df) :
                     ToNumeric(Series(AfterFallback.df, "cash")[i])
                     = ToNumeric(BeforeFallback.df.rows[i][BestUnmapped(BeforeFallback.df)])
          ELSE ~HasCol(AfterFallback.df, "cash")

\* The same for resilient_fetch's normalizer alone.
C13_SmartOnly == nstage = "smart" => C13_CashFallback

\* The table whose columns the variant that ran maps, and the table after
\* the mapping.
BeforeMapping ==
    IF nstage = "smart" THEN _long_form(_strip_empty(_flatten_columns(cand0)))
    ELSE Ret(PatchTidyLabels(cand0))

AfterMapping ==
    IF nstage = "smart" THEN SmartRename(BeforeMapping.df) ELSE PatchRename(BeforeMapping.df)

\* The canonical field a vendor header is mapped to by the variant that ran.
MappedTo(c) == IF nstage = "smart" THEN SmartMap(c) ELSE PatchMap(c)

CanonicalFields == {"commodity", "delivery", "basis", "futures", "cash", "location"}

\* C14 (column mapping, first match wins): after the mapping step every
\* canonical field labels at most one column, and that column is the
\* leftmost one whose header matches the field.
C14_FirstMatchWins ==
    (nstage \in {"smart", "patch"} /\ ~BeforeMapping.raised)
    => \A f \in CanonicalFields :
          /\ Len(ColIdx(AfterMapping, f)) <= 1
          /\ \A j \in 1..NCols(BeforeMapping.df) :
                (/\ MappedTo(BeforeMapping.df.cols[j]) = f
                 /\ \A h \in 1..(j - 1) : MappedTo(BeforeMapping.df.cols[h]) # f)
                => AfterMapping.cols[j] = f

\* Two headers of the table are mapped to the same canonical field.
C14_TwoMatches ==
    /\ nstage \in {"smart", "patch"} /\ ~BeforeMapping.raised
    /\ \E f \in CanonicalFields : \E j, h \in 1..NCols(BeforeMapping.df) :
          j # h /\ MappedTo(BeforeMapping.df.cols[j]) = f /\ MappedTo(BeforeMapping.df.cols[h]) = f

\* When no two headers match the same field, the mapping is as claimed.
C14_SingleMatches == C14_TwoMatches \/ C14_FirstMatchWins

\* The table on which the variant that ran applies the commodity filter,
\* and what the filter makes of it.
BeforeFilter ==
    IF nstage = "smart" THEN AfterFallback ELSE AfterCoercion

AfterFilter == CommodityFiltered(BeforeFilter)

\* The commodity text of row i holds a corn, soy or bean term.
FamilyRow(df, i) ==
    \E w \in {"corn", "soy", "bean"} : Contains(Lower(AsStr(Series(df, "commodity")[i])), w)

\* The rows of df at the positions where keep holds, in order.
FamilyRows(df) ==
    LET idx == SelectIdx(NRows(df), {i \in 1..NRows(df) : FamilyRow(df, i)})
    IN [x \in 1..Len(idx) |-> df.rows[idx[x]]]

\* C15 (domain filter): with one commodity column, when some row's commodity
\* text holds a corn/soy/bean term the filter keeps exactly those rows, and
\* every row that normalize returns holds such a term; when no row does,
\* the filter leaves the rows as they are.
C15_DomainFilter ==
    (/\ nstage \in {"smart", "patch"}
     /\ ~BeforeFilter.raised
     /\ HasCol(BeforeFilter.df, "commodity")
     /\ ~IsFrame(BeforeFilter.df, "commodity"))
    => /\ ~AfterFilter.raised
       /\ AfterFilter.df.cols = BeforeFilter.df.cols
       /\ IF \E i \in 1..NRows(BeforeFilter.df) : FamilyRow(BeforeFilter.df, i)
          THEN /\ AfterFilter.df.rows = FamilyRows(BeforeFilter.df)
               /\ ~nout.raised => \A i \in 1..NRows(nout.df) : FamilyRow(nout.df, i)
          ELSE AfterFilter.df.rows = BeforeFilter.df.rows

\* normalize_bid_table returned a table from which the filter removed a row
\* of another commodity.
C15_Witness ==
    /\ nstage = "patch"
    /\ ~nout.raised
    /\ NRows(nout.df) >= 1
    /\ ~BeforeFilter.raised
    /\ HasCol(BeforeFilter.df, "commodity")
    /\ ~IsFrame(BeforeFilter.df, "commodity")
    /\ \E i \in 1..NRows(BeforeFilter.df) : ~FamilyRow(BeforeFilter.df, i)
    /\ \E i \in 1..NRows(BeforeFilter.df) : FamilyRow(BeforeFilter.df, i)
    /\ NRows(AfterFilter.df) < NRows(BeforeFilter.df)

\* The filter was skipped on a table without any row of the family.
C15_SkippedWitness ==
    /\ nstage \in {"smart", "patch"}
    /\ ~BeforeFilter.raised
    /\ HasCol(BeforeFilter.df, "commodity")
    /\ ~IsFrame(BeforeFilter.df, "commodity")
    /\ NRows(BeforeFilter.df) >= 1
    /\ \A i \in 1..NRows(BeforeFilter.df) : ~FamilyRow(BeforeFilter.df, i)
    /\ AfterFilter.df.rows = BeforeFilter.df.rows

\* C18 (stages do not mutate their input): after normalize returns or
\* raises, the candidate table that the caller holds has the column labels,
\* cells and shape it had before the call.
C18_InputUnchanged ==
    (nstage \in {"smart", "patch"}) =>
        /\ cand.cols = cand0.cols
        /\ cand.rows = cand0.rows
        /\ Shape(cand) = Shape(cand0)

\* normalize_bid_table_smart leaves the caller's table as it was.
C18_SmartOnly ==
    (nstage = "smart") => cand = cand0

\* normalize_bid_table changes nothing of the caller's table but its labels.
C18_CellsUnchanged ==
    (nstage = "patch") => (cand.rows = cand0.rows /\ Shape(cand) = Shape(cand0))

(***************************************************************************)
(* Claims about the auto-fetch view, checked under SpecAggregate.          *)
(***************************************************************************)
\* Some source contributes rows to the run.
SomeSourceSucceeds ==
    \E s \in Sources : Succeeds(sites, s) /\ NRows(Part(sites, s).out.df) > 0

\* C12 (aggregate view always renders): whatever the sources return, the
\* auto-fetch view ends without an exception; it shows the aggregated table
\* when some source succeeds and a labelled placeholder dataset when none
\* does.
C12_AlwaysRenders ==
    astage = "view"
    => /\ ~view.raised
       /\ SomeSourceSucceeds => view.shown = "table"
       /\ ~SomeSourceSucceeds => view.shown = "placeholder"

\* The view shows the table of some run.
C12_NeverShowsTable == astage = "view" => view.shown # "table"

=============================================================================
